---- MODULE Spec2Model ----
(***************************************************************************)
(* Polling and rate-adaptive notification core of zfh_robot:               *)
(*   RateLimitManager (src/src/api/rate_limiter.py),                       *)
(*   FreelancehuntAPI (src/src/api/freelancehunt.py),                      *)
(*   UserManager      (src/src/utils/user_manager.py),                     *)
(*   ProjectChecker   (src/src/utils/project_checker.py),                  *)
(*   ProjectService   (src/src/services/project_service.py).               *)
(*                                                                         *)
(* Python str values are sequences of one-character strings, so that       *)
(* str(), int() and split(",") are computed rather than assumed.  Python   *)
(* dicts are functions whose DOMAIN is the key set.  Time is counted in    *)
(* whole seconds.                                                          *)
(***************************************************************************)
EXTENDS Integers, Sequences, FiniteSets, TLC

VARIABLES
    active_users,        \* UserManager.active_users
    user_filters,        \* UserManager.user_filters
    user_sent_projects,  \* UserManager.user_sent_projects
    sent_keys,           \* insertion order of the keys of user_sent_projects
    limit,               \* RateLimitManager.limit
    remaining,           \* RateLimitManager.remaining
    elapsed,             \* now - RateLimitManager.last_request_time (None: no request yet)
    pc,                  \* position of ProjectService.start_monitoring
    pending,             \* users of the cycle's snapshot not yet checked
    user_intervals,      \* UserManager.user_intervals
    loaded,              \* UserManager._loaded
    store,               \* the documents of the store's users collection, in insertion order
    sent_projects,       \* the store's sent_projects collection: its documents, and
                         \* whether the specification follows them
    calls,               \* calls suspended at an await: activate_user in the store's
                         \* find_one, _make_request in a sleep of wait_if_needed
    is_running,          \* ProjectService.is_running
    last_call,           \* observer: the latest get_projects call
    last_check,          \* observer: the _check_projects_for_user call, if the last step was one
    seen_sent,           \* observer: per user, the ids found in the history at a cycle start
    cyc,                 \* observer: what the running cycle did
    chk,                 \* inputs and result of one should_process_project call
    op,                  \* observer: the latest registry or configuration operation
    dlv                  \* observer: deliveries and failures seen by the scheduler loop

vars == <<active_users, user_filters, user_sent_projects, sent_keys, limit, remaining,
          elapsed, pc, pending, user_intervals, store, loaded, sent_projects, calls, is_running,
          last_call, last_check, seen_sent, cyc, chk, op, dlv>>

(***************************************************************************)
(* Values                                                                  *)
(***************************************************************************)

\* Python None for Optional[int] fields; every modelled integer is >= 0.
None == -1

\* The only status id that is eligible for delivery.
OPEN_STATUS_ID == 11

RATE_LIMIT_WARNING_THRESHOLD == 20

RATE_LIMIT_CRITICAL_THRESHOLD == 10

MIN_API_REQUEST_INTERVAL == 1

DEFAULT_LIMIT == 30

DEFAULT_REMAINING == 29

WARNING_WAIT == 5

CRITICAL_WAIT == 10

DEFAULT_CHECK_INTERVAL == 60

MAX_CHECK_INTERVAL == 3600

MIN_CHECK_INTERVAL == 30

\* cleanup_sent_projects(max_size, keep_size): the defaults 1000 and 500, scaled.
CleanupMaxSize == 2

CleanupKeepSize == 1

\* the start_monitoring tasks created in one run of the process
MaxLoops == 3

\* elapsed saturates here; anything >= MIN_API_REQUEST_INTERVAL behaves alike.
MaxElapsed == 2

\* the longest "data" list the upstream returns; the store call that fails, if any,
\* is the one for the project at an index up to it
MaxListLen == 2

Users == {1, 2}

UserA == CHOOSE u \in Users : \A v \in Users : u <= v

UserB == CHOOSE u \in Users : u # UserA

(***************************************************************************)
(* Python str, int() and split                                             *)
(***************************************************************************)

Digits == <<"0", "1", "2", "3", "4", "5", "6", "7", "8", "9">>

IsDigit(c) == \E i \in 1..10 : Digits[i] = c

DigitValue(c) == (CHOOSE i \in 1..10 : Digits[i] = c) - 1

RECURSIVE Str(_)
\* str(n) for an int n >= 0
Str(n) == IF n < 10 THEN <<Digits[n + 1]>> ELSE Str(n \div 10) \o <<Digits[(n % 10) + 1]>>

\* the literal without the sign int() accepts in front of the digits
Unsigned(tok) == IF tok # <<>> /\ tok[1] \in {"-", "+"} THEN Tail(tok) ELSE tok

\* int(tok) raises ValueError unless tok is a non-empty run of digits after an
\* optional sign (the strings used here carry no blanks and no underscores)
IntRaises(tok) ==
    Unsigned(tok) = <<>> \/ \E i \in 1..Len(Unsigned(tok)) : ~IsDigit(Unsigned(tok)[i])

RECURSIVE NatOf(_)
\* the value of a run of digits (leading zeros allowed, as in Python)
NatOf(tok) ==
    IF Len(tok) = 0 THEN 0
    ELSE 10 * NatOf(SubSeq(tok, 1, Len(tok) - 1)) + DigitValue(tok[Len(tok)])

\* int(tok) for a literal int() accepts
IntOf(tok) ==
    IF tok # <<>> /\ tok[1] = "-" THEN 0 - NatOf(Unsigned(tok)) ELSE NatOf(Unsigned(tok))

RECURSIVE SplitComma(_)
\* s.split(",")
SplitComma(s) ==
    IF \A i \in 1..Len(s) : s[i] # ","
    THEN <<s>>
    ELSE LET k == CHOOSE i \in 1..Len(s) : s[i] = "," /\ \A j \in 1..(i - 1) : s[j] # ","
         IN  <<SubSeq(s, 1, k - 1)>> \o SplitComma(SubSeq(s, k + 1, Len(s)))

\* dict.get(key) on a filter dict; an absent key reads as the empty (falsy) value
FilterGet(filters, key) == IF key \in DOMAIN filters THEN filters[key] ELSE <<>>

(***************************************************************************)
(* ProjectChecker.should_process_project                                   *)
(***************************************************************************)

\* a membership test that never matches (an id looked up under the wrong type)
AlreadySent_Never(project_id, user_id, sent) == FALSE

\* a membership test against one history shared by all subscribers
AlreadySent_Global(project_id, user_id, sent) ==
    \E u \in DOMAIN sent : project_id \in sent[u]

\* user_id in user_sent_projects and project_id in user_sent_projects.get(user_id, set())
AlreadySent(project_id, user_id, sent) ==
    user_id \in DOMAIN sent /\ project_id \in sent[user_id]

\* has_skill = any(skill in project_skills for skill in filter_skills)
HasSkill(project, filter_skills) ==
    \E i \in 1..Len(filter_skills) : IntOf(filter_skills[i]) \in project.skills

StatusEligible_AtLeast(project) == project.status_id >= OPEN_STATUS_ID

\* if status_id != 11: return False
StatusEligible(project) == project.status_id = OPEN_STATUS_ID

\* the employer filter lets the project through: unset, or str(employer_id) is equal
\* to str(filter_employer_id)
EmployerMatches(project, filters) ==
    \/ FilterGet(filters, "employer_id") = <<>>
    \/ Str(project.employer_id) = FilterGet(filters, "employer_id")

PlusMatches_Ignored(project, filters) == TRUE

\* the Plus filter lets the project through: not "1", or only_for_plus is true
PlusMatches(project, filters) ==
    \/ FilterGet(filters, "only_for_plus") # <<"1">>
    \/ project.only_for_plus

\* "True", "False", or "ValueError" when int() raises on a skill_id token
should_process_project(project, filters, user_id, sent) ==
    IF project.id = 0 THEN "False"
    ELSE IF AlreadySent(project.id, user_id, sent) THEN "False"
    ELSE IF ~StatusEligible(project) THEN "False"
    ELSE IF ~EmployerMatches(project, filters) THEN "False"
    ELSE IF ~PlusMatches(project, filters) THEN "False"
    ELSE IF FilterGet(filters, "skill_id") # <<>>
         THEN LET tokens == SplitComma(FilterGet(filters, "skill_id"))
              IN  IF \E i \in 1..Len(tokens) : IntRaises(tokens[i]) THEN "ValueError"
                  ELSE IF ~HasSkill(project, tokens) THEN "False"
                  ELSE "True"
    ELSE "True"

(***************************************************************************)
(* RateLimitManager                                                        *)
(***************************************************************************)

\* int(value) succeeds on header `name`
HeaderParses(headers, name) == name \in DOMAIN headers /\ ~IntRaises(headers[name])

\* a field whose header is absent or unparseable is reset to None
update_from_headers_Reset(old, headers, name, alt_name) ==
    IF HeaderParses(headers, name) THEN IntOf(headers[name])
    ELSE IF HeaderParses(headers, alt_name) THEN IntOf(headers[alt_name])
    ELSE None

\* The loop over headers.items(): a parseable x-ratelimit-* value is assigned after, or
\* instead of, the x-rate-limit-* one in either iteration order (the *_found flags), so
\* it wins; an unparseable value assigns nothing; with no parseable header the field
\* keeps its value.
update_from_headers(old, headers, name, alt_name) ==
    IF HeaderParses(headers, name) THEN IntOf(headers[name])
    ELSE IF HeaderParses(headers, alt_name) THEN IntOf(headers[alt_name])
    ELSE old

\* the sleep before the request that keeps requests min_interval_between_requests apart
SpacingWait(el) ==
    IF el # None /\ el < MIN_API_REQUEST_INTERVAL THEN MIN_API_REQUEST_INTERVAL - el ELSE 0

CooldownWait_Flipped(rem) ==
    IF rem # None /\ rem > RATE_LIMIT_WARNING_THRESHOLD THEN WARNING_WAIT ELSE 0

\* the additional sleep when the budget runs low (if ... elif ..., in the code's order)
CooldownWait(rem) ==
    IF rem # None /\ rem < RATE_LIMIT_WARNING_THRESHOLD THEN WARNING_WAIT
    ELSE IF rem # None /\ rem < RATE_LIMIT_CRITICAL_THRESHOLD THEN CRITICAL_WAIT
    ELSE 0

\* total seconds wait_if_needed sleeps
wait_if_needed(el, rem) == SpacingWait(el) + CooldownWait(rem)

should_skip_request_AtZero(rem) == rem # None /\ rem < 1

should_skip_request(rem) == rem # None /\ rem <= 1

(***************************************************************************)
(* FreelancehuntAPI                                                        *)
(*                                                                         *)
(* An upstream response is a record                                        *)
(*   kind    "200", "429", "500", "client_error" (aiohttp.ClientError      *)
(*           raised by session.get) or "timeout" (asyncio.TimeoutError)    *)
(*   headers dict of the rate-limit headers, names lower-cased             *)
(*   json    what response.json() yields: "object", "array" (valid JSON    *)
(*           that is no object), "decode_error" (json.JSONDecodeError) or  *)
(*           "content_type_error" (aiohttp.ContentTypeError)               *)
(*   meta    dict of the body's meta.ratelimit, empty when absent          *)
(*   has_data, data   the body's "data" list, when present                 *)
(***************************************************************************)

NoHeaders == [k \in {} |-> <<>>]

\* rate-limit info in the body: both keys are needed and both int() calls must succeed
MetaParses(resp) ==
    /\ "limit" \in DOMAIN resp.meta /\ "remaining" \in DOMAIN resp.meta
    /\ ~IntRaises(resp.meta["limit"]) /\ ~IntRaises(resp.meta["remaining"])

remaining_after_429_Kept(rem) == rem

\* HTTP 429: rate_limiter.remaining = 0
remaining_after_429(rem) == 0

\* the exception leaves _make_request: only aiohttp.ClientError is caught
MakeRequestRaises(resp) ==
    \/ resp.kind = "timeout"
    \/ resp.kind = "200" /\ resp.json = "decode_error"

\* _make_request after its should_skip_request test: wait_if_needed, the request and
\* the reading of the upstream answer resp, from limiter state (lim, rem, el).
\* data: the returned dict's "data" list; has_data: whether the key is there;
\* is_dict: whether the returned value is a dict.
send_request(lim, rem, el, resp) ==
         LET base == [limit |-> lim, remaining |-> rem, elapsed |-> 0, network |-> TRUE,
                      slept |-> wait_if_needed(el, rem), cooldown |-> CooldownWait(rem),
                      raised |-> MakeRequestRaises(resp), is_dict |-> TRUE,
                      has_data |-> FALSE, data |-> <<>>]
             hlim == update_from_headers(lim, resp.headers,
                                         "x-ratelimit-limit", "x-rate-limit-limit")
             hrem == update_from_headers(rem, resp.headers,
                                         "x-ratelimit-remaining", "x-rate-limit-remaining")
             seen == [base EXCEPT !.limit = hlim, !.remaining = hrem]
         IN  IF resp.kind \in {"client_error", "timeout"} THEN base
             ELSE IF resp.kind = "429"
                  THEN [seen EXCEPT !.remaining = remaining_after_429(hrem)]
             ELSE IF resp.kind # "200" THEN seen
             ELSE IF resp.json \in {"decode_error", "content_type_error"} THEN seen
             ELSE LET blim == IF resp.json = "object" /\ MetaParses(resp)
                              THEN IntOf(resp.meta["limit"]) ELSE hlim
                      brem == IF resp.json = "object" /\ MetaParses(resp)
                              THEN IntOf(resp.meta["remaining"]) ELSE hrem
                  IN  [seen EXCEPT !.limit = IF blim = None THEN DEFAULT_LIMIT ELSE blim,
                                   !.remaining = IF blim = None THEN DEFAULT_REMAINING
                                                 ELSE brem,
                                   !.is_dict = (resp.json = "object"),
                                   !.has_data = (resp.json = "object" /\ resp.has_data),
                                   !.data = IF resp.json = "object" /\ resp.has_data
                                            THEN resp.data ELSE <<>>]

\* One _make_request call: {} without a request when should_skip_request() holds
make_request(lim, rem, el, resp) ==
    IF should_skip_request(rem)
    THEN [limit |-> lim, remaining |-> rem, elapsed |-> el, network |-> FALSE,
          slept |-> 0, cooldown |-> 0, raised |-> FALSE, is_dict |-> TRUE,
          has_data |-> FALSE, data |-> <<>>]
    ELSE send_request(lim, rem, el, resp)

\* get_projects: projects = data.get("data", []); a non-dict body has no .get
get_projects(lim, rem, el, resp) ==
    LET r == make_request(lim, rem, el, resp)
    IN  [r EXCEPT !.raised = r.raised \/ ~r.is_dict,
                  !.data = IF r.raised \/ ~r.is_dict THEN <<>> ELSE r.data]

(***************************************************************************)
(* UserManager                                                             *)
(***************************************************************************)

EmptyDict == [k \in {} |-> <<>>]

\* d[k] = v on a dict
DictSet(d, k, v) == [x \in DOMAIN d \cup {k} |-> IF x = k THEN v ELSE d[x]]

\* user_filters.get(user_id, {})
get_user_filters(filters, user_id) ==
    IF user_id \in DOMAIN filters THEN filters[user_id] ELSE EmptyDict

is_project_sent(sent, project_id, user_id) ==
    IF user_id \notin DOMAIN sent THEN FALSE ELSE project_id \in sent[user_id]

\* The in-memory part of add_sent_project, on reg = [sent, keys, ...]: the set is
\* created when the user has none, then the id is added.
add_sent_project(reg, project_id, user_id) ==
    LET had == user_id \in DOMAIN reg.sent
        old == IF had THEN reg.sent[user_id] ELSE {}
    IN  [reg EXCEPT !.sent = DictSet(reg.sent, user_id, old \cup {project_id}),
                    !.keys = IF had THEN reg.keys ELSE Append(reg.keys, user_id)]

\* the user ids of a document's user_ids list are appended without a membership test
db_add_sent_project_Always(coll, project_id, user_id) ==
    LET found == {i \in 1..Len(coll) : coll[i].project_id = project_id}
    IN  IF found = {}
        THEN Append(coll, [project_id |-> project_id, user_ids |-> <<user_id>>])
        ELSE LET first == CHOOSE i \in found : \A j \in found : i <= j
             IN  [coll EXCEPT ![first].user_ids = Append(@, user_id)]

\* db_manager.add_sent_project on the sent_projects collection coll: find_one by
\* project_id; the user id is appended to the document's user_ids unless it is in it
\* (update_one changes the first matching document), or a document is inserted
db_add_sent_project(coll, project_id, user_id) ==
    LET found == {i \in 1..Len(coll) : coll[i].project_id = project_id}
    IN  IF found = {}
        THEN Append(coll, [project_id |-> project_id, user_ids |-> <<user_id>>])
        ELSE LET first == CHOOSE i \in found : \A j \in found : i <= j
                 user_ids == coll[first].user_ids
             IN  IF \E k \in 1..Len(user_ids) : user_ids[k] = user_id THEN coll
                 ELSE [coll EXCEPT ![first].user_ids = Append(@, user_id)]

\* the empty sent_projects collection; the loop only writes to it, and where its
\* content is not followed (followed = FALSE) the documents are left out of the state
SentProjectsCollection(followed) == [followed |-> followed, docs |-> <<>>]

\* the collection after a db_manager.add_sent_project call that the store answered
StoreSentProject(coll, project_id, user_id) ==
    IF coll.followed
    THEN [coll EXCEPT !.docs = db_add_sent_project(@, project_id, user_id)]
    ELSE coll

\* sent_projects_list.sort(reverse=True); sent_projects_list[:keep_size]
LargestIds(ids, keep_size) ==
    {i \in ids : Cardinality({j \in ids : j > i}) < keep_size}

\* cleanup_sent_projects: the users are visited in the dict's insertion order.  The
\* first one whose set is larger than max_size is trimmed in memory, and the call
\* db_manager.cleanup_user_sent_projects(user_id, keep_size) that follows passes an int
\* where the store expects the list of ids, so it raises and ends the loop there.
cleanup_sent_projects(sent, keys, max_size, keep_size) ==
    LET over == {k \in 1..Len(keys) : Cardinality(sent[keys[k]]) > max_size}
    IN  IF over = {} THEN sent
        ELSE LET first == keys[CHOOSE k \in over : \A j \in over : k <= j]
             IN  [sent EXCEPT ![first] = LargestIds(sent[first], keep_size)]

(***************************************************************************)
(* ProjectService                                                          *)
(***************************************************************************)

\* bot.send_message is called first and the project is marked afterwards
deliver_SendFirst(reg, project, user_id, db_fail, send_fail) ==
    LET sent   == [reg EXCEPT !.invoked = Append(@, project.id),
                              !.log = Append(@, [ev |-> "send", id |-> project.id]),
                              !.failed = IF send_fail THEN Append(@, project.id) ELSE @]
        marked == [add_sent_project(sent, project.id, user_id)
                      EXCEPT !.log = Append(@, [ev |-> "mark", id |-> project.id])]
    IN  IF db_fail THEN [marked EXCEPT !.raised = TRUE]
        ELSE [marked EXCEPT !.docs = StoreSentProject(@, project.id, user_id)]

\* _process_project_for_user for a project that should_process_project accepted:
\* add_sent_project, whose store exception propagates (db_fail), then bot.send_message,
\* whose exception is caught and logged (send_fail)
deliver(reg, project, user_id, db_fail, send_fail) ==
    LET marked == [add_sent_project(reg, project.id, user_id)
                      EXCEPT !.log = Append(@, [ev |-> "mark", id |-> project.id])]
    IN  IF db_fail THEN [marked EXCEPT !.raised = TRUE]
        ELSE [marked EXCEPT !.docs = StoreSentProject(@, project.id, user_id),
                            !.invoked = Append(@, project.id),
                            !.log = Append(@, [ev |-> "send", id |-> project.id]),
                            !.failed = IF send_fail THEN Append(@, project.id) ELSE @]

RECURSIVE process_projects(_, _, _, _, _, _, _)
\* The loop `for project in reversed(projects)` of _check_projects_for_user from
\* index i down to 1, each pass one _process_project_for_user call.
\* reg = [sent, keys, docs, invoked, failed, log, raised]: the registry, the store's
\* sent_projects collection, the ids
\* bot.send_message was called with, those for which it raised, the marks and sends in
\* their order, and whether an exception left the loop.  db_fail_at is the index of the
\* project at whose marking db_manager.add_sent_project raises, send_fail_at the index
\* of the project whose send_message raises (0: no failure).
process_projects(projects, i, user_id, filters, reg, db_fail_at, send_fail_at) ==
    IF i = 0 \/ reg.raised THEN reg
    ELSE LET project == projects[i]
             verdict == should_process_project(project, filters, user_id, reg.sent)
         IN  IF verdict = "ValueError" THEN [reg EXCEPT !.raised = TRUE]
             ELSE IF verdict = "False"
                  THEN process_projects(projects, i - 1, user_id, filters, reg,
                                        db_fail_at, send_fail_at)
             ELSE process_projects(projects, i - 1, user_id, filters,
                                   deliver(reg, project, user_id, db_fail_at = i,
                                           send_fail_at = i),
                                   db_fail_at, send_fail_at)

\* the projects taken in the order of the response
check_projects_for_user_Forward(r, user_id, filters, sent, keys, docs, db_fail_at, send_fail_at) ==
    LET reg == [sent |-> sent, keys |-> keys, docs |-> docs, invoked |-> <<>>, failed |-> <<>>,
                log |-> <<>>, raised |-> r.raised]
        n   == Len(r.data)
    IN  IF r.raised \/ r.data = <<>> THEN reg
        ELSE process_projects([k \in 1..n |-> r.data[n + 1 - k]], n, user_id, filters,
                              reg, db_fail_at, send_fail_at)

\* _check_projects_for_user after the fetch r: nothing to do on an exception of
\* get_projects or on an empty list
check_projects_for_user(r, user_id, filters, sent, keys, docs, db_fail_at, send_fail_at) ==
    LET reg == [sent |-> sent, keys |-> keys, docs |-> docs, invoked |-> <<>>, failed |-> <<>>,
                log |-> <<>>, raised |-> r.raised]
    IN  IF r.raised \/ r.data = <<>> THEN reg
        ELSE process_projects(r.data, Len(r.data), user_id, filters, reg,
                              db_fail_at, send_fail_at)

(***************************************************************************)
(* Upstream answers and projects the environment can produce               *)
(***************************************************************************)

Project(id, status_id, employer_id, only_for_plus, skills) ==
    [id |-> id, status_id |-> status_id, employer_id |-> employer_id,
     only_for_plus |-> only_for_plus, skills |-> skills]

P100 == Project(100, OPEN_STATUS_ID, 7, FALSE, {22})

P101 == Project(101, OPEN_STATUS_ID, 8, TRUE, {7})

P102 == Project(102, OPEN_STATUS_ID, 7, FALSE, {7, 22})

\* a project that is no longer open for proposals
P103 == Project(103, OPEN_STATUS_ID + 1, 7, FALSE, {22})

Resp(kind, headers, json, meta, has_data, data) ==
    [kind |-> kind, headers |-> headers, json |-> json, meta |-> meta,
     has_data |-> has_data, data |-> data]

\* HTTP 200 with a JSON object that carries the list `data`
Resp200(headers, meta, data) == Resp("200", headers, "object", meta, TRUE, data)

\* any answer without a usable body
RespPlain(kind, headers, json) == Resp(kind, headers, json, EmptyDict, FALSE, <<>>)

RateLimitHeaders(lim, rem) ==
    [k \in {"x-ratelimit-limit", "x-ratelimit-remaining"} |->
        IF k = "x-ratelimit-limit" THEN lim ELSE rem]

AltRateLimitHeaders(lim, rem) ==
    [k \in {"x-rate-limit-limit", "x-rate-limit-remaining"} |->
        IF k = "x-rate-limit-limit" THEN lim ELSE rem]

RemainingOnlyHeader(rem) == [k \in {"x-ratelimit-remaining"} |-> rem]

BodyRateLimit(lim, rem) == [k \in {"limit", "remaining"} |-> IF k = "limit" THEN lim ELSE rem]

(***************************************************************************)
(* Steps of the program, on the program's variables                        *)
(***************************************************************************)

RegistryUnchanged ==
    UNCHANGED <<active_users, user_filters, user_sent_projects, sent_keys,
                user_intervals, store, loaded, sent_projects, calls>>

LimiterUnchanged == UNCHANGED <<limit, remaining, elapsed>>

SchedulerUnchanged == UNCHANGED <<pc, pending, is_running>>

\* the limiter after a get_projects call r
LimiterAfter(r) ==
    /\ limit' = r.limit
    /\ remaining' = r.remaining
    /\ elapsed' = r.elapsed

\* the user document activate_user builds from the registry reg for user_id
UserData(reg, user_id) ==
    [user_id |-> user_id, active |-> TRUE, interval |-> reg.intervals[user_id],
     filters |-> reg.filters[user_id]]

\* collection.find_one({"user_id": user_id}) finds a document
StoreHas(st, user_id) == \E i \in 1..Len(st) : st[i].user_id = user_id

\* collection.update_one({"user_id": user_id}, {"$set": upd}): the first matching
\* document gets the fields of upd, no document is created
StoreUpdate(st, user_id, upd) ==
    IF ~StoreHas(st, user_id) THEN st
    ELSE LET first == CHOOSE i \in 1..Len(st) :
                          /\ st[i].user_id = user_id
                          /\ \A j \in 1..Len(st) : st[j].user_id = user_id => i <= j
         IN  [st EXCEPT ![first] = [k \in DOMAIN @ |-> IF k \in DOMAIN upd THEN upd[k] ELSE @[k]]]

\* what db_manager.add_user writes after its find_one answered `found`
StoreAddUser(st, doc, found) ==
    IF found THEN StoreUpdate(st, doc.user_id, doc) ELSE Append(st, doc)

\* every activation starts the user from the defaults
activate_user_Reset(reg, user_id) ==
    [active    |-> reg.active \cup {user_id},
     intervals |-> DictSet(reg.intervals, user_id, DEFAULT_CHECK_INTERVAL),
     filters   |-> DictSet(reg.filters, user_id, EmptyDict),
     sent      |-> DictSet(reg.sent, user_id, {}),
     keys      |-> IF user_id \in DOMAIN reg.sent THEN reg.keys ELSE Append(reg.keys, user_id)]

\* the in-memory part of activate_user on reg = [active, filters, intervals, sent, keys]
activate_user(reg, user_id) ==
    [active    |-> reg.active \cup {user_id},
     intervals |-> IF user_id \in DOMAIN reg.intervals THEN reg.intervals
                   ELSE DictSet(reg.intervals, user_id, DEFAULT_CHECK_INTERVAL),
     filters   |-> IF user_id \in DOMAIN reg.filters THEN reg.filters
                   ELSE DictSet(reg.filters, user_id, EmptyDict),
     sent      |-> IF user_id \in DOMAIN reg.sent THEN reg.sent
                   ELSE DictSet(reg.sent, user_id, {}),
     keys      |-> IF user_id \in DOMAIN reg.sent THEN reg.keys ELSE Append(reg.keys, user_id)]

\* the in-memory registry
Registry ==
    [active |-> active_users, filters |-> user_filters, intervals |-> user_intervals,
     sent |-> user_sent_projects, keys |-> sent_keys]

\* the in-memory registry becomes reg
RegistryBecomes(reg) ==
    /\ active_users' = reg.active
    /\ user_filters' = reg.filters
    /\ user_intervals' = reg.intervals
    /\ user_sent_projects' = reg.sent
    /\ sent_keys' = reg.keys

\* only the lower end of the range is enforced
ClampInterval_LowerOnly(interval) ==
    IF interval < MIN_CHECK_INTERVAL THEN MIN_CHECK_INTERVAL ELSE interval

\* the interval set_user_interval stores for a request of `interval` seconds
ClampInterval(interval) ==
    IF interval < MIN_CHECK_INTERVAL THEN MIN_CHECK_INTERVAL
    ELSE IF interval > MAX_CHECK_INTERVAL THEN MAX_CHECK_INTERVAL
    ELSE interval

\* user_filters[user_id] is replaced by a new dict.  A suspended activate_user call of
\* user_id holds the old dict in its user_data: the command handlers write the new key
\* into that dict before set_user_filters copies it (shared = the new contents), while
\* clear_user_filters leaves it as it was.
FiltersReplaced(cs, user_id, shared) ==
    [i \in 1..Len(cs) |->
        IF cs[i].user_id = user_id /\ cs[i].live
        THEN [cs[i] EXCEPT !.live = FALSE,
                           !.filters = IF shared = EmptyDict THEN @ ELSE shared]
        ELSE cs[i]]

\* /start: activate_user without another handler running between the find_one and
\* the write of db_manager.add_user; save_user_to_db catches the store's exceptions
\* (db_ok: the store answers)
cmd_start(u, db_ok) ==
    LET reg == activate_user(Registry, u)
    IN  /\ RegistryBecomes(reg)
        /\ loaded' = loaded /\ store' = IF db_ok THEN StoreAddUser(store, UserData(reg, u), StoreHas(store, u))
                    ELSE store
        /\ UNCHANGED <<calls, sent_projects>>
        /\ LimiterUnchanged /\ SchedulerUnchanged

\* /stop: deactivate_user; the set is changed before the store is called
cmd_stop(u, db_ok) ==
    /\ u \in active_users
    /\ active_users' = active_users \ {u}
    /\ loaded' = loaded /\ store' = IF db_ok THEN StoreUpdate(store, u, [active |-> FALSE]) ELSE store
    /\ UNCHANGED <<user_filters, user_sent_projects, sent_keys, user_intervals, calls,
                   sent_projects>>
    /\ LimiterUnchanged /\ SchedulerUnchanged

\* set_user_interval(u, interval): the clamped value is stored before the store is called
set_user_interval(u, interval, db_ok) ==
    /\ user_intervals' = DictSet(user_intervals, u, ClampInterval(interval))
    /\ loaded' = loaded /\ store' = IF db_ok THEN StoreUpdate(store, u, [interval |-> ClampInterval(interval)])
                ELSE store
    /\ UNCHANGED <<active_users, user_filters, user_sent_projects, sent_keys, calls,
                   sent_projects>>
    /\ LimiterUnchanged /\ SchedulerUnchanged

\* /skill_id, /employer_id and the filter:only_for_plus:1 button:
\* current_filters[key] = value; set_user_filters(user_id, current_filters)
cmd_set_filter(u, key, value, db_ok) ==
    LET filters == DictSet(get_user_filters(user_filters, u), key, value)
    IN  /\ value # <<>>
        /\ user_filters' = DictSet(user_filters, u, filters)
        /\ loaded' = loaded /\ store' = IF db_ok THEN StoreUpdate(store, u, [filters |-> filters]) ELSE store
        /\ calls' = FiltersReplaced(calls, u, filters)
        /\ UNCHANGED <<active_users, user_sent_projects, sent_keys, user_intervals,
                       sent_projects>>
        /\ LimiterUnchanged /\ SchedulerUnchanged

\* the filter:clear button: clear_user_filters
cmd_clear_filters(u, db_ok) ==
    /\ user_filters' = DictSet(user_filters, u, EmptyDict)
    /\ loaded' = loaded /\ store' = IF db_ok THEN StoreUpdate(store, u, [filters |-> EmptyDict]) ELSE store
    /\ calls' = FiltersReplaced(calls, u, EmptyDict)
    /\ UNCHANGED <<active_users, user_sent_projects, sent_keys, user_intervals,
                   sent_projects>>
    /\ LimiterUnchanged /\ SchedulerUnchanged

\* /debug_sent of an active user: one get_projects() call r without filters
cmd_debug_sent(u, r) ==
    /\ u \in active_users
    /\ LimiterAfter(r)
    /\ RegistryUnchanged /\ SchedulerUnchanged

\* GET /health: get_freelancehunt_status makes the get_projects() call r inside try/except
health_check(r) ==
    /\ LimiterAfter(r)
    /\ RegistryUnchanged /\ SchedulerUnchanged

\* a second passes without a request
Tick ==
    /\ elapsed # None /\ elapsed < MaxElapsed
    /\ elapsed' = elapsed + 1
    /\ UNCHANGED <<limit, remaining>>
    /\ RegistryUnchanged /\ SchedulerUnchanged

\* start_monitoring: _wait_smart_interval has slept (10 s or more), then
\* _check_projects_for_all_users starts: without active users it sleeps and returns,
\* otherwise it iterates over a copy of the active set
BeginCycle ==
    /\ pc = "wait"
    /\ elapsed' = IF elapsed = None THEN None ELSE MaxElapsed
    /\ IF active_users = {}
       THEN UNCHANGED <<pc, pending>>
       ELSE pc' = "check" /\ pending' = active_users
    /\ is_running' = is_running
    /\ UNCHANGED <<limit, remaining>>
    /\ RegistryUnchanged

\* what one pass of the loop over the snapshot does for user u after the fetch r
CheckResultWith(u, r, db_fail_at, send_fail_at) ==
    check_projects_for_user(r, u, get_user_filters(user_filters, u),
                            user_sent_projects, sent_keys, sent_projects, db_fail_at,
                            send_fail_at)

\* the same when every bot.send_message call succeeds
CheckResult(u, r, db_fail_at) == CheckResultWith(u, r, db_fail_at, 0)

\* an exception leaves the for loop over the snapshot
PendingAfter_Abort(pend, u, raised) == IF raised THEN {} ELSE pend \ {u}

\* a user whose check raised is kept for another pass
PendingAfter_Retry(pend, u, raised) == IF raised THEN pend ELSE pend \ {u}

\* the users still to check after _check_projects_for_user(u): its exception is
\* caught and logged inside the loop
PendingAfter(pend, u, raised) == pend \ {u}

\* one pass of `for user_id in active_users.copy()`: _check_projects_for_user(u),
\* whose exceptions are caught by the loop; r is the fetch, done its outcome
CheckUser(u, r, done) ==
    /\ pc = "check" /\ u \in pending
    /\ pending' = PendingAfter(pending, u, done.raised)
    /\ pc' = pc
    /\ LimiterAfter(r)
    /\ user_sent_projects' = done.sent
    /\ sent_keys' = done.keys
    /\ sent_projects' = done.docs
    /\ UNCHANGED <<active_users, user_filters, user_intervals, store, loaded, calls, is_running>>

\* the end of _check_projects_for_all_users: cleanup_sent_projects(); its exception is
\* caught by start_monitoring, which then tests `while self.is_running`
EndCycle ==
    /\ pc = "check" /\ pending = {}
    /\ pc' = IF is_running THEN "wait" ELSE "stopped"
    /\ pending' = pending
    /\ user_sent_projects' = cleanup_sent_projects(user_sent_projects, sent_keys,
                                                   CleanupMaxSize, CleanupKeepSize)
    /\ UNCHANGED <<active_users, user_filters, sent_keys, user_intervals, store, loaded,
                   sent_projects, calls,
                   is_running>>
    /\ LimiterUnchanged

\* the program after construction and load_data_from_db on an empty store
ProgramStart ==
    /\ active_users = {}
    /\ user_filters = EmptyDict
    /\ user_sent_projects = EmptyDict
    /\ sent_keys = <<>>
    /\ limit = None
    /\ remaining = None
    /\ elapsed = None
    /\ pc = "wait"
    /\ pending = {}
    /\ user_intervals = EmptyDict
    /\ loaded = TRUE /\ store = <<>>
    /\ calls = <<>>
    /\ is_running = TRUE

\* the same, the sent_projects collection followed
ProgramInit == ProgramStart /\ sent_projects = SentProjectsCollection(TRUE)

(***************************************************************************)
(* Observers at rest                                                       *)
(***************************************************************************)

NoCall == [called |-> FALSE, rem_before |-> None, elapsed_before |-> None,
           outcome |-> "none", well_formed |-> FALSE, network |-> FALSE, slept |-> 0,
           cooldown |-> 0, raised |-> FALSE, result |-> <<>>, after_429 |-> FALSE,
           hdr_reported |-> FALSE, lim_before |-> None, reported |-> None,
           hdr_seen |-> FALSE, hdr_parseable |-> FALSE, hdr_kept |-> FALSE]

NoCheckUser == [user_id |-> None, sent_before |-> EmptyDict, fetched |-> <<>>,
                invoked |-> <<>>]

NoCycle == [armed |-> FALSE, done |-> FALSE, sent |-> [u \in Users |-> {}]]

\* the ids of a sequence of ids
Ids(seq) == {seq[i] : i \in 1..Len(seq)}

NoCheck == [project |-> P100, filters |-> EmptyDict, user_id |-> UserA,
            sent |-> EmptyDict, result |-> "none"]

NoOp == [kind |-> "none", store_failed |-> FALSE]

\* what the loop was seen to do: per user the ids whose send_message raised; of the
\* last _check_projects_for_user its user, the history and the failed ids it started
\* from, the ids fetched, the ids passed to send_message, those for which it raised,
\* the marks and sends in their order and the history it ended with; of
\* the running cycle its snapshot, the users checked, those whose check raised, those
\* checked after a check had raised and whether it is over; of stop_monitoring where the loop was when it was called,
\* whether the cycle started afterwards and whether a fetch was issued in such a cycle
NoDelivery == [failed |-> [u \in Users |-> {}], user_id |-> None, sent_before |-> {},
               failed_before |-> {}, fetched |-> {}, invoked |-> <<>>,
               now_failed |-> {}, log |-> <<>>, sent_after |-> {},
               snapshot |-> {}, checked |-> {}, raised |-> {}, after_raise |-> {},
               cycle_done |-> FALSE,
               stop_pc |-> "none", late_cycle |-> FALSE, late_fetch |-> FALSE]

\* a sequence without its i-th element
Without(seq, i) == [j \in 1..(Len(seq) - 1) |-> IF j < i THEN seq[j] ELSE seq[j + 1]]

ObserversInit ==
    /\ op = NoOp
    /\ dlv = NoDelivery
    /\ last_call = NoCall
    /\ last_check = NoCheckUser
    /\ seen_sent = [u \in Users |-> {}]
    /\ cyc = NoCycle
    /\ chk = NoCheck

(***************************************************************************)
(* SpecFilter: should_process_project applied to one input                 *)
(***************************************************************************)

FilterProjects ==
    {Project(id, st, emp, plus, sk) :
        id \in {0, 100}, st \in {0, OPEN_STATUS_ID, OPEN_STATUS_ID + 1},
        emp \in {7, 8}, plus \in BOOLEAN, sk \in SUBSET {7, 22}}

\* the dict with the keys whose value is not empty
FilterDict(skill, employer, plus) ==
    LET all == [k \in {"skill_id", "employer_id", "only_for_plus"} |->
                    IF k = "skill_id" THEN skill
                    ELSE IF k = "employer_id" THEN employer ELSE plus]
    IN  [k \in {x \in DOMAIN all : all[x] # <<>>} |-> all[k]]

FilterSpecs ==
    {FilterDict(skill, employer, plus) :
        skill \in {<<>>, Str(22), Str(7) \o <<",">> \o Str(22), Str(8), <<"2", "x">>,
                   Str(22) \o <<",">>},
        employer \in {<<>>, Str(7), <<"0">> \o Str(7)},
        plus \in {<<>>, <<"1">>, <<"0">>}}

FilterHistories ==
    {EmptyDict, DictSet(EmptyDict, UserA, {100}), DictSet(EmptyDict, UserB, {100}),
     DictSet(DictSet(EmptyDict, UserA, {}), UserB, {100})}

InitFilter ==
    /\ ProgramInit
    /\ last_call = NoCall /\ last_check = NoCheckUser /\ seen_sent = [u \in Users |-> {}]
    /\ cyc = NoCycle /\ op = NoOp /\ dlv = NoDelivery
    /\ chk \in [project : FilterProjects, filters : FilterSpecs, user_id : Users,
                sent : FilterHistories, result : {"none"}]

ApplyFilter ==
    /\ chk.result = "none"
    /\ chk' = [chk EXCEPT !.result = should_process_project(chk.project, chk.filters,
                                                            chk.user_id, chk.sent)]
    /\ UNCHANGED <<active_users, user_filters, user_sent_projects, sent_keys, limit,
                   remaining, elapsed, pc, pending, user_intervals, store, loaded, sent_projects,
                   calls,
                   is_running, last_call, last_check, seen_sent, cyc, op, dlv>>

NextFilter == ApplyFilter

SpecFilter == InitFilter /\ [][NextFilter]_vars

(***************************************************************************)
(* SpecRate: the fetcher and the limiter under every kind of upstream      *)
(* answer, called by the health check                                      *)
(***************************************************************************)

\* a remaining header with a negative value, which int() parses
NegativeRemaining == <<"-", "5">>

RemainingSamples ==
    {0, 1, 2, RATE_LIMIT_CRITICAL_THRESHOLD - 1, RATE_LIMIT_CRITICAL_THRESHOLD,
     RATE_LIMIT_WARNING_THRESHOLD - 1, RATE_LIMIT_WARNING_THRESHOLD,
     RATE_LIMIT_WARNING_THRESHOLD + 5}

RateHeaders ==
    {NoHeaders} \cup {RateLimitHeaders(Str(DEFAULT_LIMIT), Str(v)) : v \in RemainingSamples}
    \cup {AltRateLimitHeaders(Str(DEFAULT_LIMIT), Str(5)), RemainingOnlyHeader(Str(5)),
          RateLimitHeaders(<<"x">>, <<"x">>),
          RateLimitHeaders(Str(DEFAULT_LIMIT), NegativeRemaining)}

\* the headers tried with the answers that carry no usable body
FewHeaders ==
    {NoHeaders, RateLimitHeaders(Str(DEFAULT_LIMIT), Str(RATE_LIMIT_WARNING_THRESHOLD + 5)),
     RemainingOnlyHeader(Str(5))}

RateResponses ==
    {Resp200(h, m, d) : h \in RateHeaders,
                        m \in {EmptyDict, BodyRateLimit(Str(DEFAULT_LIMIT), Str(3))},
                        d \in {<<>>, <<P100>>}}
    \cup {Resp("200", h, "object", EmptyDict, FALSE, <<>>) : h \in FewHeaders}
    \cup {RespPlain("200", h, j) : h \in FewHeaders,
                                   j \in {"array", "decode_error", "content_type_error"}}
    \cup {RespPlain(k, h, "object") : k \in {"429", "500"}, h \in FewHeaders}
    \cup {RespPlain(k, NoHeaders, "object") : k \in {"client_error", "timeout"}}

RECURSIVE ProjectIds(_)
ProjectIds(projects) ==
    IF projects = <<>> THEN <<>>
    ELSE <<projects[1].id>> \o ProjectIds(Tail(projects))

RateLimitHeaderNames ==
    {"x-ratelimit-limit", "x-rate-limit-limit", "x-ratelimit-remaining",
     "x-rate-limit-remaining"}

\* the request went out and an answer came back: update_from_headers was called
HeadersSeen(resp, r) == r.network /\ resp.kind \notin {"client_error", "timeout"}

\* the remaining budget the server reported in an answer with status 200: the one of
\* the body's meta when the body has one, else the one of the headers, else None
ReportedRemaining(resp, r) ==
    IF ~HeadersSeen(resp, r) \/ resp.kind # "200" THEN None
    ELSE IF resp.json = "object" /\ MetaParses(resp) THEN IntOf(resp.meta["remaining"])
    ELSE IF HeaderParses(resp.headers, "x-ratelimit-remaining")
         THEN IntOf(resp.headers["x-ratelimit-remaining"])
    ELSE IF HeaderParses(resp.headers, "x-rate-limit-remaining")
         THEN IntOf(resp.headers["x-rate-limit-remaining"])
    ELSE None

\* what the caller of get_projects observes when the upstream answers resp with call r
CallRecord(resp, r) ==
        [called |-> TRUE, rem_before |-> remaining, elapsed_before |-> elapsed,
         outcome |-> IF r.network THEN resp.kind ELSE "skipped",
         well_formed |-> r.network /\ resp.kind = "200" /\ resp.json = "object"
                         /\ resp.has_data,
         network |-> r.network, slept |-> r.slept, cooldown |-> r.cooldown,
         raised |-> r.raised, result |-> ProjectIds(r.data), after_429 |-> (last_call.outcome = "429"),
         hdr_reported |-> (resp.kind \notin {"client_error", "timeout"}
                           /\ (HeaderParses(resp.headers, "x-ratelimit-remaining")
                               \/ HeaderParses(resp.headers, "x-rate-limit-remaining"))),
         lim_before |-> limit,
         reported |-> ReportedRemaining(resp, r),
         hdr_seen |-> HeadersSeen(resp, r),
         hdr_parseable |-> \E name \in RateLimitHeaderNames : HeaderParses(resp.headers, name),
         hdr_kept |-> /\ update_from_headers(limit, resp.headers, "x-ratelimit-limit",
                                             "x-rate-limit-limit") = limit
                      /\ update_from_headers(remaining, resp.headers,
                                             "x-ratelimit-remaining",
                                             "x-rate-limit-remaining") = remaining]

RateObserversUnchanged == UNCHANGED <<last_check, seen_sent, cyc, chk, op, dlv>>

RateHealthCheck ==
    \E resp \in RateResponses :
        LET r == get_projects(limit, remaining, elapsed, resp)
        IN  /\ health_check(r)
            /\ last_call' = CallRecord(resp, r)
            /\ RateObserversUnchanged

RateTick == Tick /\ UNCHANGED last_call /\ RateObserversUnchanged

InitRate == ProgramInit /\ ObserversInit

NextRate == RateHealthCheck \/ RateTick

SpecRate == InitRate /\ [][NextRate]_vars

(***************************************************************************)
(* Spec: the scheduler loop, the registry and the subscribers' commands    *)
(***************************************************************************)

MainLists == {<<P100>>, <<P101, P102>>, <<P103, P100>>, <<P100, P100>>}

MainResponses ==
    {Resp200(NoHeaders, EmptyDict, d) : d \in MainLists}
    \cup {RespPlain("200", NoHeaders, "decode_error")}

\* what _check_projects_for_user(u) was given and did
CheckRecord(u, r, done) ==
    [user_id |-> u, sent_before |-> user_sent_projects,
     fetched |-> ProjectIds(r.data), invoked |-> done.invoked]

\* the histories found at the start of a cycle, added to those of earlier cycles
SeenAtCycleStart ==
    [u \in Users |-> seen_sent[u] \cup
                       (IF u \in DOMAIN user_sent_projects THEN user_sent_projects[u] ELSE {})]

MainIdle == last_check' = NoCheckUser /\ UNCHANGED <<last_call, seen_sent, cyc, chk, op, dlv>>

MainStart == \E u \in Users : cmd_start(u, TRUE) /\ MainIdle

MainStop == \E u \in Users : cmd_stop(u, TRUE) /\ MainIdle

\* the filter commands are issued by one subscriber; the other keeps no filters
MainSkillFilter == cmd_set_filter(UserA, "skill_id", Str(22), TRUE) /\ MainIdle

MainClearFilters == cmd_clear_filters(UserA, TRUE) /\ MainIdle

MainBeginCycle ==
    /\ BeginCycle
    /\ seen_sent' = SeenAtCycleStart
    /\ last_check' = NoCheckUser
    /\ UNCHANGED <<last_call, cyc, chk, op, dlv>>

MainCheckUser ==
    \E u \in Users, resp \in MainResponses, db_fail_at \in 0..MaxListLen :
        LET r    == get_projects(limit, remaining, elapsed, resp)
            done == CheckResult(u, r, db_fail_at)
        IN  /\ CheckUser(u, r, done)
            /\ last_check' = CheckRecord(u, r, done)
            /\ UNCHANGED <<last_call, seen_sent, cyc, chk, op, dlv>>

MainEndCycle == EndCycle /\ MainIdle

Init == ProgramStart /\ sent_projects = SentProjectsCollection(FALSE) /\ ObserversInit

Next ==
    \/ MainStart
    \/ MainStop
    \/ MainSkillFilter
    \/ MainClearFilters
    \/ MainBeginCycle
    \/ MainCheckUser
    \/ MainEndCycle

Spec == Init /\ [][Next]_vars

(***************************************************************************)
(* SpecScenario: two subscribers, one with a skill filter, polled in cycles *)
(***************************************************************************)

\* every fetch returns the open projects 100 (skills {22}) and 101 (skills {7})
ScenarioResponses ==
    {Resp200(h, EmptyDict, d) :
        h \in {NoHeaders} \cup {RateLimitHeaders(Str(DEFAULT_LIMIT), Str(rem)) :
                                   rem \in {RATE_LIMIT_CRITICAL_THRESHOLD,
                                            RATE_LIMIT_WARNING_THRESHOLD}},
        d \in {<<P100, P101>>, <<P101, P100>>}}

\* both subscribers active with empty histories, UserA with skill_id = 22
InitScenario ==
    /\ active_users = Users
    /\ user_filters = DictSet(DictSet(EmptyDict, UserA, DictSet(EmptyDict, "skill_id", Str(22))),
                              UserB, EmptyDict)
    /\ user_sent_projects = DictSet(DictSet(EmptyDict, UserA, {}), UserB, {})
    /\ sent_keys = <<UserA, UserB>>
    /\ user_intervals = [u \in Users |-> DEFAULT_CHECK_INTERVAL]
    /\ loaded = TRUE /\ store = <<UserData(Registry, UserA), UserData(Registry, UserB)>>
    /\ sent_projects = SentProjectsCollection(TRUE)
    /\ calls = <<>> /\ is_running = TRUE /\ op = NoOp /\ dlv = NoDelivery
    /\ limit = None /\ remaining = None /\ elapsed = None
    /\ pc = "wait" /\ pending = {}
    /\ last_call = NoCall /\ last_check = NoCheckUser /\ chk = NoCheck
    /\ seen_sent = [u \in Users |-> {}]
    /\ cyc = [NoCycle EXCEPT !.armed = TRUE]

ScenarioObserversUnchanged == UNCHANGED <<last_call, last_check, seen_sent, chk, op, dlv>>

\* the first cycle starts from the scenario's state; later cycles are not observed
ScenarioBeginCycle ==
    /\ BeginCycle
    /\ cyc' = IF cyc.done THEN NoCycle ELSE cyc
    /\ ScenarioObserversUnchanged

ScenarioCheckUser ==
    \E u \in Users, resp \in ScenarioResponses, db_fail_at \in 0..MaxListLen :
        LET r    == get_projects(limit, remaining, elapsed, resp)
            done == CheckResult(u, r, db_fail_at)
        IN  /\ CheckUser(u, r, done)
            /\ cyc' = [cyc EXCEPT !.sent[u] = @ \cup Ids(done.invoked)]
            /\ ScenarioObserversUnchanged

ScenarioEndCycle ==
    /\ EndCycle
    /\ cyc' = [cyc EXCEPT !.done = TRUE]
    /\ ScenarioObserversUnchanged

NextScenario == ScenarioBeginCycle \/ ScenarioCheckUser \/ ScenarioEndCycle

SpecScenario == InitScenario /\ [][NextScenario]_vars

(***************************************************************************)
(* SpecRegistry: the registry's mutators called by concurrently running     *)
(* command handlers, with a store that can fail                            *)
(***************************************************************************)

\* handlers suspended in the store at the same time
MaxCalls == 2

\* documents in the users collection, written or about to be
MaxDocs == 3

OpRecord(kind, user_id, arg, result, db_ok) ==
    [kind |-> kind, user_id |-> user_id, arg |-> arg, result |-> result,
     was_active |-> user_id \in active_users,
     store_failed |-> op.store_failed \/ ~db_ok]

RegObserversUnchanged == UNCHANGED <<last_call, last_check, seen_sent, cyc, chk, dlv>>

\* activate_user up to `await collection.find_one(...)` in db_manager.add_user: the
\* registry is updated and user_data is built; the call is suspended with the answer
RegActivateBegin ==
    \E u \in Users :
        LET reg == activate_user(Registry, u)
        IN  /\ Len(calls) < MaxCalls /\ Len(store) + Len(calls) < MaxDocs
            /\ RegistryBecomes(reg)
            /\ calls' = Append(calls, [user_id |-> u, found |-> StoreHas(store, u),
                                       interval |-> reg.intervals[u],
                                       filters |-> reg.filters[u], live |-> TRUE])
            /\ UNCHANGED <<store, loaded, sent_projects, op>>
            /\ LimiterUnchanged /\ SchedulerUnchanged /\ RegObserversUnchanged

\* the suspended call resumes: update_one or insert_one, whose exception
\* save_user_to_db catches
RegActivateWrite ==
    \E i \in 1..Len(calls), db_ok \in BOOLEAN :
        LET c   == calls[i]
            doc == [user_id |-> c.user_id, active |-> TRUE, interval |-> c.interval,
                    filters |-> c.filters]
        IN  /\ loaded' = loaded /\ store' = IF db_ok THEN StoreAddUser(store, doc, c.found) ELSE store
            /\ calls' = Without(calls, i)
            /\ op' = OpRecord("activate", c.user_id, 0, "None", db_ok)
            /\ UNCHANGED <<active_users, user_filters, user_sent_projects, sent_keys,
                           user_intervals, sent_projects>>
            /\ LimiterUnchanged /\ SchedulerUnchanged /\ RegObserversUnchanged

\* deactivate_user(u): True after the removal, False without a change, or the
\* exception of db_manager.update_user
RegDeactivate ==
    \E u \in Users, db_ok \in BOOLEAN :
        /\ IF u \in active_users
           THEN /\ cmd_stop(u, db_ok)
                /\ op' = OpRecord("deactivate", u, 0, IF db_ok THEN "True" ELSE "raised", db_ok)
           ELSE /\ RegistryUnchanged /\ LimiterUnchanged /\ SchedulerUnchanged
                /\ db_ok
                /\ op' = OpRecord("deactivate", u, 0, "False", TRUE)
        /\ RegObserversUnchanged

RegSkillFilter ==
    \E db_ok \in BOOLEAN :
        /\ cmd_set_filter(UserA, "skill_id", Str(22), db_ok)
        /\ op' = OpRecord("set_filters", UserA, 0, IF db_ok THEN "None" ELSE "raised", db_ok)
        /\ RegObserversUnchanged

RegClearFilters ==
    \E db_ok \in BOOLEAN :
        /\ cmd_clear_filters(UserA, db_ok)
        /\ op' = OpRecord("clear_filters", UserA, 0, IF db_ok THEN "None" ELSE "raised", db_ok)
        /\ RegObserversUnchanged

InitRegistry == ProgramInit /\ ObserversInit

NextRegistry ==
    \/ RegActivateBegin
    \/ RegActivateWrite
    \/ RegDeactivate
    \/ RegSkillFilter
    \/ RegClearFilters

SpecRegistry == InitRegistry /\ [][NextRegistry]_vars

\* activations and filter changes only
NextActivation ==
    \/ RegActivateBegin
    \/ RegActivateWrite
    \/ RegSkillFilter
    \/ RegClearFilters

SpecActivation == InitRegistry /\ [][NextActivation]_vars

(***************************************************************************)
(* SpecInterval: set_user_interval on activated and unknown subscribers     *)
(***************************************************************************)

\* the intervals asked for: below, at, inside, and above [MIN, MAX]
IntervalSamples ==
    {0, 5, MIN_CHECK_INTERVAL, MIN_CHECK_INTERVAL + 15, MAX_CHECK_INTERVAL,
     MAX_CHECK_INTERVAL + 400}

IntervalStart ==
    \E u \in Users : cmd_start(u, TRUE) /\ op' = op /\ RegObserversUnchanged

IntervalSet ==
    \E u \in Users, interval \in IntervalSamples, db_ok \in BOOLEAN :
        /\ set_user_interval(u, interval, db_ok)
        /\ op' = OpRecord("set_interval", u, interval, IF db_ok THEN "None" ELSE "raised", db_ok)
        /\ RegObserversUnchanged

InitInterval == ProgramInit /\ ObserversInit

NextInterval == IntervalStart \/ IntervalSet

SpecInterval == InitInterval /\ [][NextInterval]_vars

(***************************************************************************)
(* SpecCleanup: the pruning at the end of a cycle, on every pair of         *)
(* histories                                                               *)
(***************************************************************************)

CleanupIds == {100, 101, 102, 103}

\* both subscribers active without filters; the loop has checked every user of the
\* cycle's snapshot and is about to call cleanup_sent_projects
InitCleanup ==
    /\ active_users = Users
    /\ user_filters = [u \in Users |-> EmptyDict]
    /\ user_sent_projects \in [Users -> SUBSET CleanupIds]
    /\ sent_keys \in {<<UserA, UserB>>, <<UserB, UserA>>}
    /\ user_intervals = [u \in Users |-> DEFAULT_CHECK_INTERVAL]
    /\ loaded = TRUE /\ store = <<UserData(Registry, UserA), UserData(Registry, UserB)>>
    /\ sent_projects = SentProjectsCollection(TRUE) /\ calls = <<>> /\ is_running = TRUE
    /\ limit = DEFAULT_LIMIT /\ remaining = DEFAULT_REMAINING /\ elapsed = 0
    /\ pc = "check" /\ pending = {}
    /\ ObserversInit

CleanupEndCycle ==
    /\ EndCycle
    /\ op' = [kind |-> "cleanup", before |-> user_sent_projects]
    /\ UNCHANGED <<last_call, last_check, seen_sent, cyc, chk, dlv>>

NextCleanup == CleanupEndCycle

SpecCleanup == InitCleanup /\ [][NextCleanup]_vars

(***************************************************************************)
(* SpecLoop: the monitoring loop with failing deliveries, failing checks   *)
(* and stop_monitoring                                                     *)
(***************************************************************************)

LoopLists == {<<P100>>, <<P101, P102>>}

\* answers without rate-limit information, and one whose body cannot be decoded, on
\* which get_projects raises
LoopResponses ==
    {Resp200(NoHeaders, EmptyDict, d) : d \in LoopLists}
    \cup {RespPlain("200", NoHeaders, "decode_error")}

\* both subscribers active without filters and with empty histories, the loop asleep
InitLoop ==
    /\ active_users = Users
    /\ user_filters = [u \in Users |-> EmptyDict]
    /\ user_sent_projects = [u \in Users |-> {}]
    /\ sent_keys = <<UserA, UserB>>
    /\ user_intervals = [u \in Users |-> DEFAULT_CHECK_INTERVAL]
    /\ loaded = TRUE /\ store = <<UserData(Registry, UserA), UserData(Registry, UserB)>>
    /\ sent_projects = SentProjectsCollection(FALSE)
    /\ calls = <<>> /\ is_running = TRUE
    /\ limit = None /\ remaining = None /\ elapsed = None
    /\ pc = "wait" /\ pending = {}
    /\ ObserversInit

LoopObserversUnchanged == UNCHANGED <<last_call, last_check, seen_sent, cyc, chk, op>>

LoopBeginCycle ==
    /\ BeginCycle
    /\ dlv' = IF active_users = {} THEN dlv
              ELSE [dlv EXCEPT !.snapshot = active_users, !.checked = {}, !.raised = {},
                               !.after_raise = {}, !.cycle_done = FALSE, !.late_cycle = ~is_running]
    /\ LoopObserversUnchanged

LoopCheckUser ==
    \E u \in Users, resp \in LoopResponses, db_fail_at \in 0..1,
       send_fail_at \in 0..MaxListLen :
        LET r    == get_projects(limit, remaining, elapsed, resp)
            done == CheckResultWith(u, r, db_fail_at, send_fail_at)
        IN  /\ CheckUser(u, r, done)
            /\ dlv' = [dlv EXCEPT !.failed[u] = @ \cup Ids(done.failed),
                                  !.user_id = u,
                                  !.sent_before = user_sent_projects[u],
                                  !.failed_before = dlv.failed[u],
                                  !.fetched = {r.data[i].id : i \in 1..Len(r.data)},
                                  !.invoked = done.invoked,
                                  !.now_failed = Ids(done.failed),
                                  !.log = done.log,
                                  !.sent_after = done.sent[u],
                                  !.checked = @ \cup {u},
                                  !.raised = IF done.raised THEN @ \cup {u} ELSE @,
                                  !.after_raise = IF dlv.raised # {} THEN @ \cup {u} ELSE @,
                                  !.late_fetch = @ \/ (dlv.late_cycle /\ r.network)]
            /\ LoopObserversUnchanged

\* the last check is observed until the cycle ends
LoopEndCycle ==
    /\ EndCycle
    /\ dlv' = [NoDelivery EXCEPT !.failed = dlv.failed, !.snapshot = dlv.snapshot,
                                 !.checked = dlv.checked, !.raised = dlv.raised,
                                 !.after_raise = dlv.after_raise, !.cycle_done = TRUE,
                                 !.stop_pc = dlv.stop_pc, !.late_cycle = dlv.late_cycle,
                                 !.late_fetch = dlv.late_fetch]
    /\ LoopObserversUnchanged

\* stop_monitoring, called by on_shutdown, which then awaits the closing of the store
\* and of the bot session while the loop's task is still scheduled
stop_monitoring ==
    /\ is_running
    /\ is_running' = FALSE
    /\ dlv' = [dlv EXCEPT !.stop_pc = pc]
    /\ UNCHANGED <<pc, pending>>
    /\ LimiterUnchanged /\ RegistryUnchanged
    /\ LoopObserversUnchanged

NextLoop ==
    LoopBeginCycle \/ LoopCheckUser \/ LoopEndCycle \/ stop_monitoring

SpecLoop == InitLoop /\ [][NextLoop]_vars

(***************************************************************************)
(* SpecConfig: validate_config at import, on sampled environments          *)
(***************************************************************************)

\* a token of the environment: unset (os.getenv gives None), empty, or set
TokenSamples == {[is_none |-> TRUE, chars |-> <<>>], [is_none |-> FALSE, chars |-> <<>>],
                 [is_none |-> FALSE, chars |-> <<"t">>]}

\* the module globals of config.py after the environment was read
ConfigSamples ==
    [TELEGRAM_BOT_TOKEN : TokenSamples,
     FREELANCEHUNT_TOKEN : TokenSamples,
     MIN_CHECK_INTERVAL : {MIN_CHECK_INTERVAL, DEFAULT_CHECK_INTERVAL},
     MAX_CHECK_INTERVAL : {MIN_CHECK_INTERVAL, MAX_CHECK_INTERVAL},
     DEFAULT_CHECK_INTERVAL : {MIN_CHECK_INTERVAL - 20, MIN_CHECK_INTERVAL,
                               DEFAULT_CHECK_INTERVAL, MAX_CHECK_INTERVAL + 400},
     RATE_LIMIT_CRITICAL_THRESHOLD : {RATE_LIMIT_CRITICAL_THRESHOLD,
                                      RATE_LIMIT_WARNING_THRESHOLD},
     RATE_LIMIT_WARNING_THRESHOLD : {RATE_LIMIT_CRITICAL_THRESHOLD,
                                     RATE_LIMIT_WARNING_THRESHOLD}]

\* `not TOKEN` of a token: None and the empty string are falsy
TokenMissing(token) == token.is_none \/ token.chars = <<>>

\* errors.append(message) when the condition holds
AppendIf(errors, condition, message) == IF condition THEN Append(errors, message) ELSE errors

\* the check stops at the first error
validate_config_FirstOnly(cfg) ==
    LET e1 == AppendIf(<<>>, TokenMissing(cfg.TELEGRAM_BOT_TOKEN),
                       "TELEGRAM_BOT_TOKEN is required")
        e2 == AppendIf(e1, e1 = <<>> /\ TokenMissing(cfg.FREELANCEHUNT_TOKEN),
                       "FREELANCEHUNT_TOKEN is required")
        e3 == AppendIf(e2, e2 = <<>> /\ cfg.MIN_CHECK_INTERVAL >= cfg.MAX_CHECK_INTERVAL,
                       "MIN_CHECK_INTERVAL must be less than MAX_CHECK_INTERVAL")
        e4 == AppendIf(e3, /\ e3 = <<>>
                           /\ \/ cfg.DEFAULT_CHECK_INTERVAL < cfg.MIN_CHECK_INTERVAL
                              \/ cfg.DEFAULT_CHECK_INTERVAL > cfg.MAX_CHECK_INTERVAL,
                       "DEFAULT_CHECK_INTERVAL must be between MIN_CHECK_INTERVAL and MAX_CHECK_INTERVAL")
    IN  AppendIf(e4, /\ e4 = <<>>
                     /\ cfg.RATE_LIMIT_CRITICAL_THRESHOLD >= cfg.RATE_LIMIT_WARNING_THRESHOLD,
                 "RATE_LIMIT_CRITICAL_THRESHOLD must be less than RATE_LIMIT_WARNING_THRESHOLD")

\* validate_config: the list `errors` it has built when it reaches `if errors`; it
\* raises ValueError with every entry of the list iff the list is not empty
validate_config(cfg) ==
    LET e1 == AppendIf(<<>>, TokenMissing(cfg.TELEGRAM_BOT_TOKEN),
                       "TELEGRAM_BOT_TOKEN is required")
        e2 == AppendIf(e1, TokenMissing(cfg.FREELANCEHUNT_TOKEN),
                       "FREELANCEHUNT_TOKEN is required")
        e3 == AppendIf(e2, cfg.MIN_CHECK_INTERVAL >= cfg.MAX_CHECK_INTERVAL,
                       "MIN_CHECK_INTERVAL must be less than MAX_CHECK_INTERVAL")
        e4 == AppendIf(e3, \/ cfg.DEFAULT_CHECK_INTERVAL < cfg.MIN_CHECK_INTERVAL
                           \/ cfg.DEFAULT_CHECK_INTERVAL > cfg.MAX_CHECK_INTERVAL,
                       "DEFAULT_CHECK_INTERVAL must be between MIN_CHECK_INTERVAL and MAX_CHECK_INTERVAL")
    IN  AppendIf(e4, cfg.RATE_LIMIT_CRITICAL_THRESHOLD >= cfg.RATE_LIMIT_WARNING_THRESHOLD,
                 "RATE_LIMIT_CRITICAL_THRESHOLD must be less than RATE_LIMIT_WARNING_THRESHOLD")

\* config.py is being imported with some environment
InitConfig ==
    /\ ProgramInit
    /\ op \in {[kind |-> "import", config |-> cfg, errors |-> <<>>, raised |-> FALSE] :
                  cfg \in ConfigSamples}
    /\ dlv = NoDelivery /\ last_call = NoCall /\ last_check = NoCheckUser
    /\ seen_sent = [u \in Users |-> {}] /\ cyc = NoCycle /\ chk = NoCheck

\* the call `validate_config()` at the end of config.py
ConfigValidate ==
    /\ op.kind = "import"
    /\ op' = [op EXCEPT !.kind = "validate_config",
                        !.errors = validate_config(op.config),
                        !.raised = validate_config(op.config) # <<>>]
    /\ RegistryUnchanged /\ LimiterUnchanged /\ SchedulerUnchanged
    /\ UNCHANGED <<last_call, last_check, seen_sent, cyc, chk, dlv>>

NextConfig == ConfigValidate

SpecConfig == InitConfig /\ [][NextConfig]_vars

(***************************************************************************)
(* SpecMark: add_sent_project called directly, the store answering or not  *)
(***************************************************************************)

MarkIds == {100, 101}

\* UserManager.add_sent_project(project_id, u): the in-memory set first, then
\* db_manager.add_sent_project, whose exception is not caught (db_ok: the store answers)
MarkSent(u, project_id, db_ok) ==
    LET reg == add_sent_project([sent |-> user_sent_projects, keys |-> sent_keys],
                                project_id, u)
    IN  /\ user_sent_projects' = reg.sent
        /\ sent_keys' = reg.keys
        /\ sent_projects' = IF db_ok THEN StoreSentProject(sent_projects, project_id, u)
                            ELSE sent_projects
        /\ UNCHANGED <<active_users, user_filters, user_intervals, store, loaded, calls>>
        /\ LimiterUnchanged /\ SchedulerUnchanged

\* the call, whether it raised, whether it repeats the call before it, which returned,
\* and the registry and the collection it started from
MarkCall ==
    \E u \in Users, project_id \in MarkIds, db_ok \in BOOLEAN :
        /\ MarkSent(u, project_id, db_ok)
        /\ op' = [kind |-> "add_sent_project", user_id |-> u, project_id |-> project_id,
                  result |-> IF db_ok THEN "None" ELSE "raised",
                  repeat |-> /\ op.kind = "add_sent_project"
                             /\ op.user_id = u /\ op.project_id = project_id
                             /\ op.result = "None",
                  sent_before |-> user_sent_projects, keys_before |-> sent_keys,
                  docs_before |-> sent_projects.docs]
        /\ RegObserversUnchanged

InitMark == ProgramInit /\ ObserversInit

NextMark == MarkCall

SpecMark == InitMark /\ [][NextMark]_vars

(***************************************************************************)
(* SpecSleep: get_min_user_interval and the scheduler's sleep, on sampled  *)
(* registries and budgets                                                  *)
(***************************************************************************)

\* calculate_smart_interval: more active users than this raise the interval
FAN_OUT_THRESHOLD == 10
\* ... to at least this many seconds
FAN_OUT_FLOOR == 60
\* remaining below this raises the interval to SMART_CRITICAL_FLOOR
SMART_CRITICAL_LEVEL == 5
SMART_CRITICAL_FLOOR == 300
\* remaining below this, and not below the critical level, to SMART_WARNING_FLOOR
SMART_WARNING_LEVEL == 10
SMART_WARNING_FLOOR == 120
\* the sleep of _wait_smart_interval without active users
IDLE_SLEEP == 10

\* the larger of two ints
Max2(a, b) == IF a >= b THEN a ELSE b

\* user_intervals.get(user_id, config.DEFAULT_CHECK_INTERVAL)
IntervalOf(intervals, user_id) ==
    IF user_id \in DOMAIN intervals THEN intervals[user_id] ELSE DEFAULT_CHECK_INTERVAL

\* the minimum is taken over every user that has an interval
get_min_user_interval_AllUsers(active, intervals) ==
    IF active = {} THEN DEFAULT_CHECK_INTERVAL
    ELSE CHOOSE m \in {IntervalOf(intervals, u) : u \in active \cup DOMAIN intervals} :
            \A u \in active \cup DOMAIN intervals : m <= IntervalOf(intervals, u)

\* get_min_user_interval
get_min_user_interval(active, intervals) ==
    IF active = {} THEN DEFAULT_CHECK_INTERVAL
    ELSE CHOOSE m \in {IntervalOf(intervals, u) : u \in active} :
            \A u \in active : m <= IntervalOf(intervals, u)

\* the floors replace the interval instead of bounding it from below
calculate_smart_interval_Replace(min_user_interval, active_users_count, rem) ==
    LET fanned == IF active_users_count > FAN_OUT_THRESHOLD THEN FAN_OUT_FLOOR
                  ELSE min_user_interval
    IN  IF rem = None THEN fanned
        ELSE IF rem < SMART_CRITICAL_LEVEL THEN SMART_CRITICAL_FLOOR
        ELSE IF rem < SMART_WARNING_LEVEL THEN SMART_WARNING_FLOOR
        ELSE fanned

\* calculate_smart_interval(min_user_interval, active_users_count, api_requests_remaining)
calculate_smart_interval(min_user_interval, active_users_count, rem) ==
    LET fanned == IF active_users_count > FAN_OUT_THRESHOLD
                  THEN Max2(min_user_interval, FAN_OUT_FLOOR)
                  ELSE min_user_interval
    IN  IF rem = None THEN fanned
        ELSE IF rem < SMART_CRITICAL_LEVEL THEN Max2(fanned, SMART_CRITICAL_FLOOR)
        ELSE IF rem < SMART_WARNING_LEVEL THEN Max2(fanned, SMART_WARNING_FLOOR)
        ELSE fanned

\* the seconds _wait_smart_interval sleeps
wait_smart_interval(active, intervals, rem) ==
    IF active = {} THEN IDLE_SLEEP
    ELSE calculate_smart_interval(get_min_user_interval(active, intervals),
                                  Cardinality(active), rem)

\* the users of the sampled registries: enough of them to pass the fan-out threshold
SleepUsers == 1..(FAN_OUT_THRESHOLD + 1)

SleepActiveSets == {{}, {UserA}, {UserB}, Users, SleepUsers}

SleepIntervals == {MIN_CHECK_INTERVAL, MIN_CHECK_INTERVAL + 15, 200, 400}

\* UserA and UserB have any of the sampled intervals, the others the default one; or
\* UserB, loaded from a document without an interval, has none
SleepIntervalDicts ==
    {[u \in SleepUsers |-> IF u = UserA THEN a ELSE IF u = UserB THEN b
                           ELSE DEFAULT_CHECK_INTERVAL] :
        a \in SleepIntervals, b \in SleepIntervals}
    \cup {[u \in SleepUsers \ {UserB} |-> IF u = UserA THEN a ELSE DEFAULT_CHECK_INTERVAL] :
             a \in SleepIntervals}

SleepRemaining ==
    {None, 0, SMART_CRITICAL_LEVEL - 1, SMART_CRITICAL_LEVEL, SMART_WARNING_LEVEL - 1,
     SMART_WARNING_LEVEL, RATE_LIMIT_WARNING_THRESHOLD - 5, RATE_LIMIT_WARNING_THRESHOLD,
     DEFAULT_REMAINING}

\* the loop is about to sleep, with some registry and some belief about the budget
InitSleep ==
    /\ active_users \in SleepActiveSets
    /\ user_intervals \in SleepIntervalDicts
    /\ remaining \in SleepRemaining
    /\ limit = IF remaining = None THEN None ELSE DEFAULT_LIMIT
    /\ elapsed = IF remaining = None THEN None ELSE 0
    /\ user_filters = [u \in SleepUsers |-> EmptyDict]
    /\ user_sent_projects = [u \in SleepUsers |-> {}]
    /\ sent_keys = <<>>
    /\ loaded = TRUE /\ store = <<>> /\ sent_projects = SentProjectsCollection(TRUE)
    /\ calls = <<>> /\ is_running = TRUE
    /\ pc = "wait" /\ pending = {}
    /\ ObserversInit

SleepUnchanged ==
    /\ RegistryUnchanged /\ LimiterUnchanged /\ SchedulerUnchanged
    /\ UNCHANGED <<last_call, last_check, seen_sent, cyc, chk, dlv>>

\* a call of get_min_user_interval
SleepMinInterval ==
    /\ op.kind = "none"
    /\ op' = [kind |-> "get_min_user_interval", store_failed |-> FALSE,
              result |-> get_min_user_interval(active_users, user_intervals)]
    /\ SleepUnchanged

\* _wait_smart_interval at the top of the loop
SleepWait ==
    /\ op.kind = "none" /\ pc = "wait"
    /\ op' = [kind |-> "wait_smart_interval", store_failed |-> FALSE,
              result |-> wait_smart_interval(active_users, user_intervals, remaining)]
    /\ SleepUnchanged

NextSleep == SleepMinInterval \/ SleepWait

SpecSleep == InitSleep /\ [][NextSleep]_vars

(***************************************************************************)
(* SpecSpacing: the tasks of the event loop calling the fetcher, suspended *)
(* and resumed at the sleeps of wait_if_needed                             *)
(***************************************************************************)

\* the callers of get_projects: the monitoring loop, /debug_sent and GET /health
FetchTasks == {"loop", "debug_sent", "health"}

\* answers that leave the budget unknown to the headers, comfortable, or below the
\* warning threshold, and HTTP 429
SpacingResponses ==
    {Resp200(h, EmptyDict, <<>>) :
        h \in {NoHeaders,
               RateLimitHeaders(Str(DEFAULT_LIMIT), Str(RATE_LIMIT_WARNING_THRESHOLD + 5)),
               RateLimitHeaders(Str(DEFAULT_LIMIT), Str(RATE_LIMIT_WARNING_THRESHOLD - 5))}}
    \cup {RespPlain("429", NoHeaders, "object")}

SpacingObserversUnchanged == UNCHANGED <<last_call, last_check, seen_sent, cyc, chk, dlv>>

SpacingRegistryUnchanged ==
    UNCHANGED <<active_users, user_filters, user_sent_projects, sent_keys, user_intervals,
                store, loaded, sent_projects>>

\* the end of wait_if_needed and the request: last_request_time = now(), then the
\* answer resp is read; should_skip_request is not asked again.  gap is the time
\* since the request before it
IssueRequest(task, resp) ==
    LET r == send_request(limit, remaining, 0, resp)
    IN  /\ limit' = r.limit
        /\ remaining' = r.remaining
        /\ elapsed' = 0
        /\ op' = [kind |-> "request", store_failed |-> FALSE, task |-> task,
                  gap |-> elapsed]

\* wait_if_needed after its spacing sleep: the cooldown is chosen from the remaining
\* of that moment and slept, or the request is issued at once
AfterSpacing(task, others, resp) ==
    IF CooldownWait(remaining) > 0
    THEN /\ calls' = Append(others, [task |-> task, phase |-> "cooldown",
                                     left |-> CooldownWait(remaining)])
         /\ UNCHANGED <<op>> /\ LimiterUnchanged
    ELSE /\ calls' = others
         /\ IssueRequest(task, resp)

\* a task calls _make_request: should_skip_request, then wait_if_needed up to its
\* first sleep
SpacingEnter ==
    \E task \in FetchTasks, resp \in SpacingResponses :
        /\ \A i \in 1..Len(calls) : calls[i].task # task
        /\ ~should_skip_request(remaining)
        /\ IF SpacingWait(elapsed) > 0
           THEN /\ calls' = Append(calls, [task |-> task, phase |-> "spacing",
                                           left |-> SpacingWait(elapsed)])
                /\ UNCHANGED <<op>> /\ LimiterUnchanged
           ELSE AfterSpacing(task, calls, resp)
        /\ SpacingRegistryUnchanged /\ SchedulerUnchanged /\ SpacingObserversUnchanged

\* a sleep is over and its task runs on
SpacingResume ==
    \E i \in 1..Len(calls), resp \in SpacingResponses :
        /\ calls[i].left = 0
        /\ IF calls[i].phase = "spacing"
           THEN AfterSpacing(calls[i].task, Without(calls, i), resp)
           ELSE /\ calls' = Without(calls, i)
                /\ IssueRequest(calls[i].task, resp)
        /\ SpacingRegistryUnchanged /\ SchedulerUnchanged /\ SpacingObserversUnchanged

\* a second passes: every sleep has a second less to go; no task whose sleep is over
\* is kept waiting
SpacingTick ==
    /\ \A i \in 1..Len(calls) : calls[i].left > 0
    /\ calls # <<>> \/ (elapsed # None /\ elapsed < MaxElapsed)
    /\ calls' = [i \in 1..Len(calls) |-> [calls[i] EXCEPT !.left = @ - 1]]
    /\ elapsed' = IF elapsed = None THEN None
                  ELSE IF elapsed < MaxElapsed THEN elapsed + 1 ELSE MaxElapsed
    /\ UNCHANGED <<limit, remaining, op>>
    /\ SpacingRegistryUnchanged /\ SchedulerUnchanged /\ SpacingObserversUnchanged

InitSpacing == ProgramInit /\ ObserversInit

NextSpacing == SpacingEnter \/ SpacingResume \/ SpacingTick

SpecSpacing == InitSpacing /\ [][NextSpacing]_vars

(***************************************************************************)
(* SpecSnapshot: one cycle of the loop, its fetches and deliveries as      *)
(* separate steps, while /start and /stop change the active set            *)
(***************************************************************************)

\* what a cycle was seen to do: the active set when it started, per user the number
\* of get_projects calls made for them, the user whose check is under way and what
\* was fetched for them, and of the last finished check its user, whether they were
\* active when it ran, the list fetched, the ids
\* passed to send_message in their order and those for which it raised
NoSnapshot == [kind |-> "cycle", store_failed |-> FALSE, started |-> FALSE,
               snapshot |-> {}, fetches |-> [u \in Users |-> 0], current |-> None,
               raised |-> FALSE, data |-> <<>>, user_id |-> None, was_active |-> FALSE,
               fetched |-> <<>>, invoked |-> <<>>, failed |-> {}, done |-> FALSE]

SnapObserversUnchanged == UNCHANGED <<last_call, last_check, seen_sent, cyc, chk, dlv>>

InitSnapshot ==
    /\ active_users = {UserA}
    /\ user_filters = [u \in Users |-> EmptyDict]
    /\ user_sent_projects = [u \in Users |-> {}]
    /\ sent_keys = <<UserA, UserB>>
    /\ user_intervals = [u \in Users |-> DEFAULT_CHECK_INTERVAL]
    /\ loaded = TRUE /\ store = <<UserData(Registry, UserA), UserData(Registry, UserB)>>
    /\ sent_projects = SentProjectsCollection(FALSE)
    /\ calls = <<>> /\ is_running = TRUE
    /\ limit = None /\ remaining = None /\ elapsed = None
    /\ pc = "wait" /\ pending = {}
    /\ last_call = NoCall /\ last_check = NoCheckUser
    /\ seen_sent = [u \in Users |-> {}] /\ cyc = NoCycle /\ chk = NoCheck
    /\ dlv = NoDelivery /\ op = NoSnapshot

SnapStart == \E u \in Users : cmd_start(u, TRUE) /\ UNCHANGED op /\ SnapObserversUnchanged

SnapStop == \E u \in Users : cmd_stop(u, TRUE) /\ UNCHANGED op /\ SnapObserversUnchanged

\* _check_projects_for_all_users up to `for user_id in active_users.copy()`
SnapBeginCycle ==
    /\ BeginCycle
    /\ op' = IF active_users = {} THEN op
             ELSE [NoSnapshot EXCEPT !.started = TRUE, !.snapshot = active_users]
    /\ SnapObserversUnchanged

\* _check_projects_for_user(u) up to the return of `await api_client.get_projects`
SnapFetch ==
    \E u \in Users, resp \in LoopResponses :
        LET r == get_projects(limit, remaining, elapsed, resp)
        IN  /\ pc = "check" /\ u \in pending /\ op.current = None
            /\ LimiterAfter(r)
            /\ op' = [op EXCEPT !.fetches[u] = IF @ < 2 THEN @ + 1 ELSE @,
                                !.current = u, !.raised = r.raised, !.data = r.data]
            /\ UNCHANGED <<pc, pending, is_running>>
            /\ RegistryUnchanged /\ SnapObserversUnchanged

\* the rest of _check_projects_for_user(u): the loop over reversed(projects), and the
\* loop over the snapshot going on to its next user
SnapDeliver ==
    \E send_fail_at \in 0..MaxListLen :
        LET u    == op.current
            r    == [raised |-> op.raised, data |-> op.data]
            done == CheckResultWith(u, r, 0, send_fail_at)
        IN  /\ pc = "check" /\ op.current # None
            /\ pending' = PendingAfter(pending, u, done.raised)
            /\ user_sent_projects' = done.sent
            /\ sent_keys' = done.keys
            /\ sent_projects' = done.docs
            /\ op' = [op EXCEPT !.current = None, !.raised = FALSE, !.data = <<>>,
                                !.user_id = u, !.was_active = u \in active_users,
                                !.fetched = [i \in 1..Len(op.data) |-> op.data[i].id],
                                !.invoked = done.invoked, !.failed = Ids(done.failed)]
            /\ UNCHANGED <<active_users, user_filters, user_intervals, store, loaded, calls,
                           pc, is_running>>
            /\ LimiterUnchanged /\ SnapObserversUnchanged

SnapEndCycle ==
    /\ op.current = None
    /\ EndCycle
    /\ op' = [op EXCEPT !.done = TRUE, !.fetched = <<>>, !.invoked = <<>>, !.failed = {},
                        !.user_id = None, !.was_active = FALSE]
    /\ SnapObserversUnchanged

NextSnapshot ==
    SnapStart \/ SnapStop \/ SnapBeginCycle \/ SnapFetch \/ SnapDeliver \/ SnapEndCycle

SpecSnapshot == InitSnapshot /\ [][NextSnapshot]_vars

(***************************************************************************)
(* SpecParams: the query parameters get_projects builds from a filter dict *)
(***************************************************************************)

\* the name of the query parameter of a filter key
ParamName(key) == "filter[" \o key \o "]"

\* every key of the dict passed on with its value
request_params_AllKeys(filters) ==
    [p \in {ParamName(k) : k \in DOMAIN filters} |->
        LET k == CHOOSE x \in DOMAIN filters : ParamName(x) = p IN filters[k]]

\* the loop `for key, value in filters.items()` of get_projects: params gets
\* filter[skill_id] and filter[employer_id] for a truthy value, filter[only_for_plus]
\* for the value "1", and nothing for any other key; no filters (None or {}) give {}
request_params(filters) ==
    LET kept == {k \in DOMAIN filters :
                    \/ k = "skill_id" /\ filters[k] # <<>>
                    \/ k = "employer_id" /\ filters[k] # <<>>
                    \/ k = "only_for_plus" /\ filters[k] = <<"1">>}
    IN  [p \in {ParamName(k) : k \in kept} |->
            LET k == CHOOSE x \in kept : ParamName(x) = p
            IN  IF k = "only_for_plus" THEN <<"1">> ELSE filters[k]]

\* filter keys the handlers set, the disabled only_my_skills and one never used
ParamKeys == {"skill_id", "employer_id", "only_for_plus", "only_my_skills", "page"}

ParamValues == {<<>>, <<"1">>, <<"0">>, Str(22)}

ParamFilters == UNION {[keys -> ParamValues] : keys \in SUBSET ParamKeys}

NoParams == [kind |-> "params", store_failed |-> FALSE, filters |-> EmptyDict,
             params |-> EmptyDict, built |-> FALSE]

InitParams ==
    /\ ProgramInit
    /\ last_call = NoCall /\ last_check = NoCheckUser /\ seen_sent = [u \in Users |-> {}]
    /\ cyc = NoCycle /\ chk = NoCheck /\ dlv = NoDelivery
    /\ \E f \in ParamFilters : op = [NoParams EXCEPT !.filters = f]

BuildParams ==
    /\ ~op.built
    /\ op' = [op EXCEPT !.params = request_params(op.filters), !.built = TRUE]
    /\ RegistryUnchanged /\ LimiterUnchanged /\ SchedulerUnchanged
    /\ UNCHANGED <<last_call, last_check, seen_sent, cyc, chk, dlv>>

NextParams == BuildParams

SpecParams == InitParams /\ [][NextParams]_vars

(***************************************************************************)
(* SpecRestart: the start_monitoring tasks created by on_startup and       *)
(* /start, and stop_monitoring                                             *)
(***************************************************************************)

\* a start_monitoring task: created by asyncio.create_task and not yet run, asleep in
\* _wait_smart_interval, inside _check_projects_for_all_users, returned at once
\* because a loop was running, or past its while loop; whether stop_monitoring was
\* called while it was in its loop, whether it started another cycle after that, and
\* whether its last cycle raised
MonitorTask(at) == [task |-> "monitor", pc |-> at, stopped |-> FALSE, late |-> FALSE,
                    raised |-> FALSE]

InLoop(t) == t.pc \in {"wait", "check"}

RestartUnchanged ==
    /\ UNCHANGED <<active_users, user_filters, user_sent_projects, sent_keys,
                   user_intervals, store, loaded, sent_projects, pc, pending>>
    /\ LimiterUnchanged
    /\ UNCHANGED <<last_call, last_check, seen_sent, cyc, chk, op, dlv>>

\* ProjectService(bot): is_running is False and no task exists yet
InitRestart ==
    /\ active_users = {} /\ user_filters = EmptyDict /\ user_sent_projects = EmptyDict
    /\ sent_keys = <<>> /\ user_intervals = EmptyDict /\ loaded = TRUE /\ store = <<>>
    /\ sent_projects = SentProjectsCollection(FALSE)
    /\ limit = None /\ remaining = None /\ elapsed = None
    /\ pc = "wait" /\ pending = {}
    /\ calls = <<>> /\ is_running = FALSE
    /\ ObserversInit

\* on_startup: asyncio.create_task(start_monitoring())
RestartStartup ==
    /\ calls = <<>>
    /\ calls' = <<MonitorTask("created")>>
    /\ UNCHANGED is_running
    /\ RestartUnchanged

\* the end of cmd_start: a task is created when is_running is False
RestartCmdStart ==
    /\ calls # <<>> /\ Len(calls) < MaxLoops
    /\ ~is_running
    /\ calls' = Append(calls, MonitorTask("created"))
    /\ UNCHANGED is_running
    /\ RestartUnchanged

\* start_monitoring up to its first sleep: return when a loop is running, else set
\* the flag and enter the while loop
RestartRun ==
    \E i \in 1..Len(calls) :
        /\ calls[i].pc = "created"
        /\ calls' = [calls EXCEPT ![i].pc = IF is_running THEN "returned" ELSE "wait"]
        /\ is_running' = TRUE
        /\ RestartUnchanged

\* the sleep of _wait_smart_interval is over: the cycle is run without another look
\* at is_running
RestartWake ==
    \E i \in 1..Len(calls) :
        /\ calls[i].pc = "wait"
        /\ calls' = [calls EXCEPT ![i].pc = "check"]
        /\ UNCHANGED is_running
        /\ RestartUnchanged

\* _check_projects_for_all_users returns or raises, the exception is logged, and
\* `while self.is_running` is tested
RestartCycleEnd ==
    \E i \in 1..Len(calls), raised \in BOOLEAN :
        /\ calls[i].pc = "check"
        /\ calls' = [calls EXCEPT ![i].pc = IF is_running THEN "wait" ELSE "exited",
                                  ![i].raised = raised,
                                  ![i].late = @ \/ (calls[i].stopped /\ is_running)]
        /\ UNCHANGED is_running
        /\ RestartUnchanged

\* stop_monitoring as called by on_shutdown
RestartStop ==
    /\ is_running
    /\ is_running' = FALSE
    /\ calls' = [i \in 1..Len(calls) |->
                    IF InLoop(calls[i]) THEN [calls[i] EXCEPT !.stopped = TRUE]
                    ELSE calls[i]]
    /\ RestartUnchanged

NextRestart ==
    \/ RestartStartup \/ RestartCmdStart \/ RestartRun \/ RestartWake
    \/ RestartCycleEnd \/ RestartStop

SpecRestart == InitRestart /\ [][NextRestart]_vars

(***************************************************************************)
(* SpecIdle: the sleeps of the loop, with and without active subscribers,  *)
(* while /start and /stop change the active set                            *)
(***************************************************************************)

\* of the running cycle: the asyncio.sleep calls of the scheduler in their order,
\* whether _wait_smart_interval has returned, the number of sleeps made when the
\* first fetch was issued (None before it), whether a message was sent, and
\* whether the cycle is over
NoSleeps == [kind |-> "sleeps", store_failed |-> FALSE, sleeps |-> <<>>, waited |-> FALSE,
             at_fetch |-> None, sent |-> FALSE, done |-> FALSE]

IdleObserversUnchanged == UNCHANGED <<last_call, last_check, seen_sent, cyc, chk, dlv>>

InitIdle ==
    /\ ProgramStart /\ sent_projects = SentProjectsCollection(FALSE)
    /\ last_call = NoCall /\ last_check = NoCheckUser
    /\ seen_sent = [u \in Users |-> {}] /\ cyc = NoCycle /\ chk = NoCheck
    /\ dlv = NoDelivery /\ op = NoSleeps

IdleStart == \E u \in Users : cmd_start(u, TRUE) /\ UNCHANGED op /\ IdleObserversUnchanged

IdleStop == \E u \in Users : cmd_stop(u, TRUE) /\ UNCHANGED op /\ IdleObserversUnchanged

\* the top of the while loop: _wait_smart_interval sleeps IDLE_SLEEP or the smart
\* interval
IdleWait ==
    /\ pc = "wait" /\ (op.done \/ ~op.waited)
    /\ op' = [NoSleeps EXCEPT
                 !.sleeps = <<wait_smart_interval(active_users, user_intervals, remaining)>>,
                 !.waited = TRUE]
    /\ RegistryUnchanged /\ LimiterUnchanged /\ SchedulerUnchanged
    /\ IdleObserversUnchanged

\* _check_projects_for_all_users up to its loop: without active users it sleeps 10 s
\* itself and returns
IdleBeginCycle ==
    /\ op.waited /\ ~op.done
    /\ BeginCycle
    /\ op' = IF active_users = {}
             THEN [op EXCEPT !.sleeps = Append(@, IDLE_SLEEP), !.done = TRUE]
             ELSE op
    /\ IdleObserversUnchanged

IdleCheckUser ==
    \E u \in Users, resp \in LoopResponses :
        LET r    == get_projects(limit, remaining, elapsed, resp)
            done == CheckResult(u, r, 0)
        IN  /\ CheckUser(u, r, done)
            /\ op' = [op EXCEPT !.at_fetch = IF @ = None THEN Len(op.sleeps) ELSE @,
                                !.sent = @ \/ done.invoked # <<>>]
            /\ IdleObserversUnchanged

IdleEndCycle ==
    /\ EndCycle
    /\ op' = [op EXCEPT !.done = TRUE]
    /\ IdleObserversUnchanged

NextIdle ==
    IdleStart \/ IdleStop \/ IdleWait \/ IdleBeginCycle \/ IdleCheckUser \/ IdleEndCycle

SpecIdle == InitIdle /\ [][NextIdle]_vars

(***************************************************************************)
(* SpecProcess: single _process_project_for_user calls, with the store,    *)
(* the formatter and the transport failing or not                          *)
(***************************************************************************)

\* _process_project_for_user for an accepted project, line by line: add_sent_project
\* (db_fail: the store raises after the id was added in memory), then
\* `message_text, keyboard = format_project_message(...)`, outside the try
\* (format_fail: the call raises, or its result is not a pair and the unpacking raises,
\* as with the str that message_formatter.format_project_message returns), then
\* bot.send_message inside the try
process_project_for_user(reg, project, user_id, db_fail, format_fail, send_fail) ==
    IF db_fail THEN deliver(reg, project, user_id, TRUE, FALSE)
    ELSE IF format_fail
         THEN [deliver(reg, project, user_id, TRUE, FALSE)
                  EXCEPT !.docs = StoreSentProject(@, project.id, user_id)]
         ELSE deliver(reg, project, user_id, FALSE, send_fail)

ProcessProjects == {P100, P101, P102}

InitProcess ==
    /\ active_users = Users
    /\ user_filters = [u \in Users |-> EmptyDict]
    /\ user_sent_projects = [u \in Users |-> {}]
    /\ sent_keys = <<UserA, UserB>>
    /\ user_intervals = [u \in Users |-> DEFAULT_CHECK_INTERVAL]
    /\ loaded = TRUE /\ store = <<UserData(Registry, UserA), UserData(Registry, UserB)>>
    /\ sent_projects = SentProjectsCollection(TRUE)
    /\ calls = <<>> /\ is_running = TRUE
    /\ limit = None /\ remaining = None /\ elapsed = None
    /\ pc = "check" /\ pending = {}
    /\ ObserversInit

\* one call for a project the filters accept; what it started from, whether it
\* raised, and whether send_message was called
ProcessCall ==
    \E u \in Users, project \in ProcessProjects, db_fail \in BOOLEAN,
       format_fail \in BOOLEAN, send_fail \in BOOLEAN :
        LET reg  == [sent |-> user_sent_projects, keys |-> sent_keys, docs |-> sent_projects,
                     invoked |-> <<>>, failed |-> <<>>, log |-> <<>>, raised |-> FALSE]
            done == process_project_for_user(reg, project, u, db_fail, format_fail,
                                             send_fail)
        IN  /\ should_process_project(project, get_user_filters(user_filters, u), u,
                                      user_sent_projects) = "True"
            /\ user_sent_projects' = done.sent
            /\ sent_keys' = done.keys
            /\ sent_projects' = done.docs
            /\ op' = [kind |-> "process", store_failed |-> db_fail, user_id |-> u,
                      project_id |-> project.id, sent_before |-> user_sent_projects[u],
                      raised |-> done.raised, invoked |-> Ids(done.invoked)]
            /\ UNCHANGED <<active_users, user_filters, user_intervals, store, loaded, calls>>
            /\ LimiterUnchanged /\ SchedulerUnchanged
            /\ UNCHANGED <<last_call, last_check, seen_sent, cyc, chk, dlv>>

NextProcess == ProcessCall

SpecProcess == InitProcess /\ [][NextProcess]_vars

(***************************************************************************)
(* SpecReactivate: /start, /stop, /interval, the filter commands and       *)
(* deliveries in any order                                                 *)
(***************************************************************************)

\* what the registry holds for user u: the interval, the filter dict and the
\* delivered set, each with whether there is one
UserView(u) ==
    [has_interval |-> u \in DOMAIN user_intervals,
     interval     |-> IF u \in DOMAIN user_intervals THEN user_intervals[u] ELSE None,
     has_filters  |-> u \in DOMAIN user_filters,
     filters      |-> get_user_filters(user_filters, u),
     has_sent     |-> u \in DOMAIN user_sent_projects,
     sent         |-> IF u \in DOMAIN user_sent_projects THEN user_sent_projects[u] ELSE {}]

\* the last call: its kind and user, what the registry held for the user before it,
\* whether it is an activation that follows the deactivation of the same user, and
\* what the registry held for the user before that deactivation
ReactRecord(kind, u) ==
    LET again == kind = "activate" /\ op.kind = "deactivate" /\ op.user_id = u
    IN  [kind |-> kind, store_failed |-> FALSE, user_id |-> u, before |-> UserView(u),
         after_stop |-> again, at_stop |-> IF again THEN op.before ELSE UserView(u)]

ReactIntervals == {5, MIN_CHECK_INTERVAL + 15, MAX_CHECK_INTERVAL + 400}

InitReactivate == ProgramStart /\ sent_projects = SentProjectsCollection(FALSE) /\ ObserversInit

ReactStart ==
    \E u \in Users :
        /\ cmd_start(u, TRUE) /\ op' = ReactRecord("activate", u) /\ RegObserversUnchanged

ReactStop ==
    \E u \in Users :
        /\ cmd_stop(u, TRUE) /\ op' = ReactRecord("deactivate", u) /\ RegObserversUnchanged

ReactSetInterval ==
    \E interval \in ReactIntervals :
        /\ set_user_interval(UserA, interval, TRUE)
        /\ op' = ReactRecord("set_interval", UserA) /\ RegObserversUnchanged

ReactSetFilter ==
    /\ cmd_set_filter(UserA, "skill_id", Str(22), TRUE)
    /\ op' = ReactRecord("set_filters", UserA) /\ RegObserversUnchanged

ReactClearFilters ==
    /\ cmd_clear_filters(UserA, TRUE)
    /\ op' = ReactRecord("clear_filters", UserA) /\ RegObserversUnchanged

\* the loop delivers project 100 to an active user
ReactDeliver ==
    \E u \in Users :
        /\ u \in active_users
        /\ MarkSent(u, 100, TRUE) /\ op' = ReactRecord("deliver", u) /\ RegObserversUnchanged

NextReactivate ==
    \/ ReactStart \/ ReactStop \/ ReactSetInterval \/ ReactSetFilter
    \/ ReactClearFilters \/ ReactDeliver

SpecReactivate == InitReactivate /\ [][NextReactivate]_vars

(***************************************************************************)
(* Claims                                                                  *)
(***************************************************************************)

C2_ScenarioDeliveries ==
    (cyc.armed /\ cyc.done)
        => cyc.sent[UserA] = {100} /\ cyc.sent[UserB] = {100, 101}

\* the history of user_id alone
OwnHistory(sent, user_id) == [k \in DOMAIN sent \cap {user_id} |-> sent[k]]

MainProjects == {P100, P101, P102, P103}

C4_ClosedNeverProcessed ==
    (chk.result # "none" /\ chk.project.status_id # OPEN_STATUS_ID)
        => chk.result = "False"

\* a project with a valid id, not delivered, no filter: only its status rejects it
C4_Witness ==
    /\ chk.result = "False"
    /\ chk.project.id # 0
    /\ chk.project.status_id = OPEN_STATUS_ID + 1
    /\ chk.filters = EmptyDict
    /\ ~is_project_sent(chk.sent, chk.project.id, chk.user_id)

\* a filter spec as the data model has it: skill ids and an employer id in decimal
WellFormedFilters(filters) ==
    /\ \/ FilterGet(filters, "employer_id") = <<>>
       \/ /\ ~IntRaises(FilterGet(filters, "employer_id"))
          /\ Str(IntOf(FilterGet(filters, "employer_id"))) = FilterGet(filters, "employer_id")
    /\ \/ FilterGet(filters, "skill_id") = <<>>
       \/ \A i \in 1..Len(SplitComma(FilterGet(filters, "skill_id"))) :
              ~IntRaises(SplitComma(FilterGet(filters, "skill_id"))[i])

\* the ids a well-formed skill filter names
FilterSkillIds(filters) ==
    {IntOf(SplitComma(FilterGet(filters, "skill_id"))[i]) :
        i \in 1..Len(SplitComma(FilterGet(filters, "skill_id")))}

\* the acceptance condition as the claim words it
C5_Accepts(c) ==
    /\ ~(c.user_id \in DOMAIN c.sent /\ c.project.id \in c.sent[c.user_id])
    /\ c.project.status_id = 11
    /\ \/ "employer_id" \notin DOMAIN c.filters
       \/ IntOf(c.filters["employer_id"]) = c.project.employer_id
    /\ \/ FilterGet(c.filters, "only_for_plus") # <<"1">>
       \/ c.project.only_for_plus = TRUE
    /\ \/ "skill_id" \notin DOMAIN c.filters
       \/ FilterSkillIds(c.filters) \cap c.project.skills # {}

C6_SkipIffLowBudget ==
    /\ should_skip_request(remaining) <=> (remaining # None /\ remaining <= 1)
    /\ remaining = None => ~should_skip_request(remaining)
    /\ last_call.called
          => (last_call.network
                 <=> (last_call.rem_before = None \/ last_call.rem_before > 1))

\* a call was skipped with exactly one request left
C6_Witness ==
    /\ last_call.called /\ ~last_call.network /\ last_call.rem_before = 1
    /\ should_skip_request(remaining)

\* C7: after a fetch answered with HTTP 429 remaining is 0 and should_skip_request()
\* is true, whatever headers the answer carried; the next get_projects call returns an
\* empty list without a network request.
C7_After429 ==
    /\ last_call.outcome = "429" => (remaining = 0 /\ should_skip_request(remaining))
    /\ last_call.after_429
          => /\ last_call.outcome = "skipped"
             /\ ~last_call.network
             /\ ~last_call.raised
             /\ last_call.result = <<>>

\* the call that followed a 429 was skipped, although the 429's headers, read before
\* the status, may have reported a budget
C7_Witness == last_call.after_429 /\ last_call.outcome = "skipped" /\ remaining = 0

\* C8: get_projects never raises and returns an empty list in every outcome other
\* than a well-formed 200 body.
C8_NeverRaises ==
    last_call.called
        => /\ ~last_call.raised
           /\ ~last_call.well_formed => last_call.result = <<>>

\* the remaining values compared by C9
RemainingRange == RemainingSamples \cup {3, 5, DEFAULT_REMAINING}

\* C9: with the time since the last request fixed, the total sleep of wait_if_needed
\* does not decrease as remaining decreases, and is smallest when remaining is unknown.
C9_WaitMonotone ==
    \A r1 \in RemainingRange, r2 \in RemainingRange :
        /\ r1 <= r2 => wait_if_needed(elapsed, r1) >= wait_if_needed(elapsed, r2)
        /\ wait_if_needed(elapsed, None) <= wait_if_needed(elapsed, r1)
        /\ (last_call.network /\ r1 <= last_call.rem_before)
              => wait_if_needed(last_call.elapsed_before, r1) >= last_call.slept

\* a request that waited for the spacing and for the cooldown
C9_Witness ==
    /\ last_call.network
    /\ last_call.cooldown > 0
    /\ last_call.slept > last_call.cooldown

\* C10: the cooldown on top of the spacing wait is 0 s when remaining is unknown or
\* >= the warning threshold, 5 s below the warning threshold, 10 s below the critical one.
C10_CooldownLevels ==
    last_call.network
        => last_call.cooldown =
              IF last_call.rem_before = None
                 \/ last_call.rem_before >= RATE_LIMIT_WARNING_THRESHOLD THEN 0
              ELSE IF last_call.rem_before >= RATE_LIMIT_CRITICAL_THRESHOLD THEN 5
              ELSE 10

\* C11: after cleanup_sent_projects(max_size, keep_size) every history that had more
\* than max_size ids holds exactly keep_size ids, the largest of the original ones, and
\* every other history is unchanged.
C11_CleanupTrimsAll ==
    op.kind = "cleanup"
       => \A u \in DOMAIN op.before :
             IF Cardinality(op.before[u]) > CleanupMaxSize
             THEN /\ user_sent_projects[u] \subseteq op.before[u]
                  /\ Cardinality(user_sent_projects[u]) = CleanupKeepSize
                  /\ \A kept \in user_sent_projects[u] :
                        \A dropped \in op.before[u] \ user_sent_projects[u] : kept > dropped
             ELSE user_sent_projects[u] = op.before[u]

MinOf(a, b) == IF a <= b THEN a ELSE b

MaxOf(a, b) == IF a >= b THEN a ELSE b

\* C12: after set_user_interval(id, s) the interval stored for id is
\* min(max(s, MIN_CHECK_INTERVAL), MAX_CHECK_INTERVAL), also when the store call that
\* follows fails.
C12_IntervalClamped ==
    op.kind = "set_interval"
       => /\ op.user_id \in DOMAIN user_intervals
          /\ user_intervals[op.user_id]
                = MinOf(MaxOf(op.arg, MIN_CHECK_INTERVAL), MAX_CHECK_INTERVAL)

\* a request of 5 seconds stored the minimum, for a subscriber that was never activated
C12_Witness ==
    /\ op.kind = "set_interval" /\ op.arg = 5
    /\ user_intervals[op.user_id] = MIN_CHECK_INTERVAL
    /\ op.user_id \notin DOMAIN user_filters

\* the documents of the users collection with this user_id
DocsOf(user_id) == {i \in 1..Len(store) : store[i].user_id = user_id}

\* C13: when an activate_user call has returned, no other activation of the same id is
\* under way and no store call has failed, the id is active, has one entry in the
\* registry and exactly one document in the store, and that document is active and
\* carries the filter spec set last.
C13_ActivationUpsert ==
    (/\ op.kind = "activate" /\ ~op.store_failed
     /\ \A i \in 1..Len(calls) : calls[i].user_id # op.user_id)
       => /\ op.user_id \in active_users
          /\ op.user_id \in DOMAIN user_filters
          /\ Cardinality(DocsOf(op.user_id)) = 1
          /\ \A i \in DocsOf(op.user_id) :
                store[i].active /\ store[i].filters = user_filters[op.user_id]

\* C14: deactivate_user(id) returns True and id is no longer active when id was active,
\* and returns False when it was not.
C14_DeactivateResult ==
    op.kind = "deactivate"
       => /\ op.user_id \notin active_users
          /\ op.result = IF op.was_active THEN "True" ELSE "False"

C16_CycleSurvivesExceptions ==
    /\ pc = "check" => pending = dlv.snapshot \ dlv.checked
    /\ dlv.cycle_done => dlv.checked = dlv.snapshot
    /\ pc = "stopped" => ~is_running

\* a finished cycle in which a check raised and another subscriber was checked after
\* it, the loop asleep again
C16_Witness ==
    /\ dlv.cycle_done /\ pc = "wait"
    /\ dlv.after_raise \ dlv.raised # {}

\* C17 as stated: when stop_monitoring is called while the loop sleeps, no fetch is
\* issued in a cycle that starts afterwards.
C17_NoFetchAfterStop ==
    dlv.stop_pc = "wait" => ~dlv.late_fetch

\* the constraints of the configuration cfg that are violated, by their messages
ViolatedConstraints(cfg) ==
    {m \in {"TELEGRAM_BOT_TOKEN is required"} : cfg.TELEGRAM_BOT_TOKEN.is_none \/ Len(cfg.TELEGRAM_BOT_TOKEN.chars) = 0}
    \cup {m \in {"FREELANCEHUNT_TOKEN is required"} : cfg.FREELANCEHUNT_TOKEN.is_none \/ Len(cfg.FREELANCEHUNT_TOKEN.chars) = 0}
    \cup {m \in {"MIN_CHECK_INTERVAL must be less than MAX_CHECK_INTERVAL"} :
             ~(cfg.MIN_CHECK_INTERVAL < cfg.MAX_CHECK_INTERVAL)}
    \cup {m \in {"DEFAULT_CHECK_INTERVAL must be between MIN_CHECK_INTERVAL and MAX_CHECK_INTERVAL"} :
             cfg.DEFAULT_CHECK_INTERVAL \notin cfg.MIN_CHECK_INTERVAL..cfg.MAX_CHECK_INTERVAL}
    \cup {m \in {"RATE_LIMIT_CRITICAL_THRESHOLD must be less than RATE_LIMIT_WARNING_THRESHOLD"} :
             ~(cfg.RATE_LIMIT_CRITICAL_THRESHOLD < cfg.RATE_LIMIT_WARNING_THRESHOLD)}

\* C18: validate_config raises iff at least one constraint is violated, and the error
\* it raises lists every violated constraint and nothing else.
C18_RaisesAllViolations ==
    op.kind = "validate_config"
        => /\ op.raised <=> ViolatedConstraints(op.config) # {}
           /\ Ids(op.errors) = ViolatedConstraints(op.config)

\* an environment that violates a token, an interval and a threshold constraint
C18_Witness ==
    /\ op.kind = "validate_config" /\ op.raised
    /\ Cardinality(Ids(op.errors)) >= 3
    /\ op.config.TELEGRAM_BOT_TOKEN.chars # <<>>
    /\ ~op.config.FREELANCEHUNT_TOKEN.is_none /\ op.config.FREELANCEHUNT_TOKEN.chars = <<>>

\* C19 as stated: after a call answered with status 200 in which the server reported
\* a remaining budget, in the headers or in the body, remaining is the reported value.
C19_ReportedRemainingKept ==
    (last_call.outcome = "200" /\ last_call.reported # None)
        => remaining = last_call.reported

\* C20: limit and remaining, once known, are known in every later state, and a call
\* of update_from_headers with no parseable rate-limit header leaves both unchanged.
C20_NeverUnknownAgain ==
    /\ [][/\ limit # None => limit' # None
          /\ remaining # None => remaining' # None]_vars
    /\ []((last_call.hdr_seen /\ ~last_call.hdr_parseable) => last_call.hdr_kept)

\* an answer with unparseable rate-limit headers met a known belief, which is kept
C20_Witness ==
    /\ last_call.hdr_seen /\ ~last_call.hdr_parseable /\ last_call.hdr_kept
    /\ last_call.outcome = "500"
    /\ last_call.lim_before # None /\ limit = last_call.lim_before
    /\ last_call.rem_before # None /\ remaining = last_call.rem_before

\* a step in which no answer of the server was read: time passes, or a call is
\* skipped or ends without a response
NoServerResponse == (elapsed # None /\ elapsed' = elapsed + 1) \/ ~last_call'.hdr_seen

\* C21 as stated: remaining, when known, is never negative, and it does not increase
\* in a step in which no answer of the server was read.
C21_NonNegativeNonIncreasing ==
    /\ [](remaining # None => remaining >= 0)
    /\ [][(remaining # None /\ NoServerResponse)
             => (remaining' # None /\ remaining' <= remaining)]_vars

\* C22: a call add_sent_project(I, S) that follows a call with the same arguments
\* which returned leaves S's in-memory set and the store's document of I as they were.
C22_MarkIdempotent ==
    (op.kind = "add_sent_project" /\ op.repeat)
        => /\ user_sent_projects = op.sent_before
           /\ sent_keys = op.keys_before
           /\ sent_projects.docs = op.docs_before

\* a repeated call that the store answered, for a project that has two recipients
C22_Witness ==
    /\ op.kind = "add_sent_project" /\ op.repeat /\ op.result = "None"
    /\ op.project_id \in user_sent_projects[op.user_id]
    /\ \E i \in 1..Len(sent_projects.docs) :
          /\ sent_projects.docs[i].project_id = op.project_id
          /\ Len(sent_projects.docs[i].user_ids) = 2

\* the interval stored for a subscriber, the default one for a subscriber without one
StoredInterval(u) ==
    IF u \in DOMAIN user_intervals THEN user_intervals[u] ELSE DEFAULT_CHECK_INTERVAL

\* C23: get_min_user_interval returns DEFAULT_CHECK_INTERVAL when no subscriber is
\* active, and otherwise the interval of an active subscriber that no active
\* subscriber's interval is below, whatever the intervals of the inactive ones are.
C23_MinOverActive ==
    op.kind = "get_min_user_interval"
        => IF active_users = {} THEN op.result = DEFAULT_CHECK_INTERVAL
           ELSE /\ \E u \in active_users : StoredInterval(u) = op.result
                /\ \A u \in active_users : op.result <= StoredInterval(u)

\* an inactive subscriber has a shorter interval than the minimum returned
C23_Witness ==
    /\ op.kind = "get_min_user_interval"
    /\ active_users # {}
    /\ \E v \in DOMAIN user_intervals \ active_users : user_intervals[v] < op.result

\* the smallest interval of an active subscriber
MinActiveInterval ==
    CHOOSE m \in {StoredInterval(u) : u \in active_users} :
        \A u \in active_users : m <= StoredInterval(u)

\* the lower bounds of the sleep: the smallest active interval, the fan-out floor with
\* more active subscribers than the fan-out threshold, the warning floor with a known
\* remaining below the warning level, the critical floor below the critical level
SleepFloors(rem) ==
    {MinActiveInterval}
    \cup {f \in {FAN_OUT_FLOOR} : Cardinality(active_users) > FAN_OUT_THRESHOLD}
    \cup {f \in {SMART_WARNING_FLOOR} : rem # None /\ rem < SMART_WARNING_LEVEL}
    \cup {f \in {SMART_CRITICAL_FLOOR} : rem # None /\ rem < SMART_CRITICAL_LEVEL}

\* C26: with an active subscriber the scheduler's sleep is the largest of its lower
\* bounds, the critical floor being above the warning floor; so it is not below the
\* smallest active interval and not below the sleep for any larger remaining.
C26_SleepIsLargestFloor ==
    (op.kind = "wait_smart_interval" /\ active_users # {})
        => /\ op.result \in SleepFloors(remaining)
           /\ \A f \in SleepFloors(remaining) : op.result >= f
           /\ SMART_CRITICAL_FLOOR > SMART_WARNING_FLOOR
           /\ op.result >= MinActiveInterval
           /\ \A more \in SleepRemaining \ {None} :
                 (remaining # None /\ remaining <= more)
                    => op.result >= wait_smart_interval(active_users, user_intervals, more)

\* more subscribers than the fan-out threshold and a budget below the critical level
C26_Witness ==
    /\ op.kind = "wait_smart_interval"
    /\ Cardinality(active_users) > FAN_OUT_THRESHOLD
    /\ remaining = SMART_CRITICAL_LEVEL - 1
    /\ op.result = SMART_CRITICAL_FLOOR

\* C27 as stated: with an active subscriber, a known remaining below
\* RATE_LIMIT_WARNING_THRESHOLD makes the scheduler sleep at least the warning floor,
\* and one below RATE_LIMIT_CRITICAL_THRESHOLD at least the critical floor.
C27_ConfiguredThresholds ==
    (op.kind = "wait_smart_interval" /\ active_users # {} /\ remaining # None)
        => /\ remaining < RATE_LIMIT_WARNING_THRESHOLD => op.result >= SMART_WARNING_FLOOR
           /\ remaining < RATE_LIMIT_CRITICAL_THRESHOLD => op.result >= SMART_CRITICAL_FLOOR

\* C24 as stated: a deactivate_user, set_user_filters or clear_user_filters call whose
\* store write fails keeps its in-memory change and returns, the failure absorbed.
C24_FailureAbsorbed ==
    op.kind \in {"deactivate", "set_filters", "clear_filters"}
        => /\ op.result # "raised"
           /\ op.kind = "deactivate" => op.user_id \notin active_users
           /\ op.kind = "clear_filters" => user_filters[op.user_id] = EmptyDict

\* C25 as stated: every upstream request is issued at least MIN_API_REQUEST_INTERVAL
\* after the request before it, whichever tasks issue them.
C25_RequestsSpaced ==
    (op.kind = "request" /\ op.gap # None) => op.gap >= MIN_API_REQUEST_INTERVAL

\* C28: a cycle calls get_projects for the users active when it started and for
\* nobody else, never twice for one of them, and by its end once for each of them,
\* whatever /start and /stop do to the active set meanwhile; a fetch starts only when
\* no other user's check is under way.
C28_OncePerSnapshotUser ==
    /\ [](op.kind = "cycle" =>
            /\ \A u \in Users : op.fetches[u] <= (IF u \in op.snapshot THEN 1 ELSE 0)
            /\ (op.done => \A u \in op.snapshot : op.fetches[u] = 1))
    /\ [][(op.kind = "cycle" /\ op'.kind = "cycle"
           /\ \E u \in Users : op'.fetches[u] > op.fetches[u])
             => (op.current = None /\ op'.current # None)]_vars

\* a finished cycle that fetched for a user stopped meanwhile and not for one started
\* meanwhile
C28_Witness ==
    /\ op.kind = "cycle" /\ op.done
    /\ op.snapshot = {UserA} /\ active_users = {UserB}
    /\ op.fetches[UserA] = 1 /\ op.fetches[UserB] = 0

\* the place of id x in the sequence of ids seq
PlaceIn(seq, x) == CHOOSE k \in 1..Len(seq) : seq[k] = x

\* the ids of the last check whose send_message call returned
DeliveredIds == Ids(op.invoked) \ op.failed

C30_AllowListedParams ==
    (op.kind = "params" /\ op.built) =>
        /\ DOMAIN op.params \subseteq
               {ParamName("skill_id"), ParamName("employer_id"), ParamName("only_for_plus")}
        /\ \A k \in {"skill_id", "employer_id"} :
               /\ ParamName(k) \in DOMAIN op.params <=> FilterGet(op.filters, k) # <<>>
               /\ ParamName(k) \in DOMAIN op.params => op.params[ParamName(k)] = op.filters[k]
        /\ ParamName("only_for_plus") \in DOMAIN op.params
               <=> FilterGet(op.filters, "only_for_plus") = <<"1">>
        /\ ParamName("only_for_plus") \in DOMAIN op.params
               => op.params[ParamName("only_for_plus")] = <<"1">>

\* a dict with an unsupported key, an empty employer_id and only_for_plus "0": only
\* the skill filter is sent
C30_Witness ==
    /\ op.kind = "params" /\ op.built
    /\ DOMAIN op.filters = {"skill_id", "employer_id", "only_for_plus", "only_my_skills"}
    /\ op.filters["skill_id"] = Str(22) /\ op.filters["employer_id"] = <<>>
    /\ op.filters["only_for_plus"] = <<"0">> /\ op.filters["only_my_skills"] = <<"1">>
    /\ DOMAIN op.params = {ParamName("skill_id")}

\* C31 as stated: at the end of a cycle, after cleanup_sent_projects, every
\* subscriber's delivered set holds at most max_size ids.
C31_HistoriesBounded ==
    op.kind = "cleanup"
        => \A u \in DOMAIN user_sent_projects :
               Cardinality(user_sent_projects[u]) <= CleanupMaxSize

\* C32 as stated: a loop leaves its while loop only after stop_monitoring was called,
\* whatever its cycles raised, and a loop that was running when stop_monitoring was
\* called starts no cycle after the one under way.
C32_StopsOnlyAndSurelyOnStop ==
    \A i \in 1..Len(calls) :
        /\ calls[i].pc = "exited" => calls[i].stopped
        /\ calls[i].stopped => ~calls[i].late

\* C36 as stated: no two start_monitoring tasks are inside a cycle at the same time.
C36_AtMostOneLoop ==
    Cardinality({i \in 1..Len(calls) : calls[i].pc = "check"}) <= 1

\* C33 as stated: a cycle makes one scheduler sleep, before its fetches; a cycle that
\* fetches nothing because nobody is active has slept once, the 10 s fallback, and
\* has sent nothing.
C33_OneSleepPerCycle ==
    op.kind = "sleeps" =>
        /\ op.at_fetch # None => op.at_fetch = 1
        /\ op.done => Len(op.sleeps) = 1
        /\ (op.done /\ op.at_fetch = None /\ active_users = {})
               => (op.sleeps = <<IDLE_SLEEP>> /\ ~op.sent)

\* C34 as stated: an id that a _process_project_for_user call added to the user's
\* delivered history was passed to bot.send_message by that call.
C34_MarkedImpliesAttempted ==
    op.kind = "process"
        => (user_sent_projects[op.user_id] \ op.sent_before) \subseteq op.invoked

\* C35 as stated: once remaining is known and at most 1, no step changes it.
C35_SkipStateAbsorbing ==
    [][(remaining # None /\ remaining <= 1) => remaining' = remaining]_vars

C38_ReactivationPreserves ==
    /\ (op.kind = "deactivate" /\ op.user_id # None) => UserView(op.user_id) = op.before
    /\ (op.kind = "activate" /\ op.after_stop)
          => /\ UserView(op.user_id) = op.at_stop
             /\ op.user_id \in active_users
             /\ \A project \in {P100, P101} :
                   project.id \in op.at_stop.sent
                      => should_process_project(project, EmptyDict, op.user_id,
                                                user_sent_projects) = "False"

\* a re-activated user with an interval, a filter and a delivery of their own
C38_Witness ==
    /\ op.kind = "activate" /\ op.after_stop /\ op.user_id = UserA
    /\ user_intervals[UserA] = MAX_CHECK_INTERVAL
    /\ user_filters[UserA] # EmptyDict
    /\ user_sent_projects[UserA] = {100}

\* C39: every stored interval lies between MIN_CHECK_INTERVAL and MAX_CHECK_INTERVAL,
\* and every active user has an interval, a filter dict and a delivered set.
C39_RegistryWellFormed ==
    /\ \A u \in DOMAIN user_intervals :
           MIN_CHECK_INTERVAL <= user_intervals[u] /\ user_intervals[u] <= MAX_CHECK_INTERVAL
    /\ \A u \in active_users :
           /\ u \in DOMAIN user_intervals
           /\ u \in DOMAIN user_filters
           /\ u \in DOMAIN user_sent_projects

\* an interval request above the range for a user never activated, next to an active
\* user with the defaults
C39_Witness ==
    /\ op.kind = "set_interval" /\ ~op.before.has_interval
    /\ user_intervals[UserA] = MAX_CHECK_INTERVAL
    /\ UserA \notin active_users /\ UserB \in active_users
    /\ user_intervals[UserB] = DEFAULT_CHECK_INTERVAL

(***************************************************************************)
(* The cache load: load_data_from_db called by two tasks while _loaded is  *)
(* still False                                                             *)
(***************************************************************************)

\* the tasks that call load_data_from_db: start_monitoring and a command handler
LoadTasks == {"monitor", "handler"}

\* set(user['sent_projects'])
SetOfList(list) == {list[i] : i \in 1..Len(list)}

\* one turn of the loop of load_data_from_db, for the document user
LoadUser(reg, user) ==
    LET user_id == user.user_id
    IN  [active    |-> IF "active" \in DOMAIN user /\ user.active
                       THEN reg.active \cup {user_id} ELSE reg.active,
         filters   |-> IF "filters" \in DOMAIN user
                       THEN DictSet(reg.filters, user_id, user.filters) ELSE reg.filters,
         intervals |-> IF "interval" \in DOMAIN user
                       THEN DictSet(reg.intervals, user_id, user.interval)
                       ELSE reg.intervals,
         sent      |-> DictSet(reg.sent, user_id,
                               IF "sent_projects" \in DOMAIN user
                               THEN SetOfList(user.sent_projects) ELSE {}),
         keys      |-> IF user_id \in DOMAIN reg.sent THEN reg.keys
                       ELSE Append(reg.keys, user_id)]

\* the loop of load_data_from_db over the documents get_all_users returned
RECURSIVE load_data_from_db(_, _)
load_data_from_db(reg, users) ==
    IF users = <<>> THEN reg
    ELSE load_data_from_db(LoadUser(reg, Head(users)), Tail(users))

\* a user document as save_user_to_db stores it, with the sent_projects list
SavedUser(user_id, active, sent) ==
    [user_id |-> user_id, active |-> active, interval |-> DEFAULT_CHECK_INTERVAL,
     filters |-> EmptyDict, sent_projects |-> sent]

\* the users collection at the start
LoadStores ==
    { <<SavedUser(UserA, TRUE, <<100>>)>>,
      <<SavedUser(UserA, TRUE, <<>>), SavedUser(UserB, FALSE, <<101>>)>>,
      <<[user_id |-> UserA, active |-> TRUE], SavedUser(UserB, TRUE, <<100, 101>>)>> }

\* observer: the last step, how many load_data_from_db runs wrote the cache, and per
\* user the ids add_sent_project added in memory since the first of them
NoLoad == [kind |-> "none", loads |-> 0, added |-> [u \in Users |-> {}]]

LoadSuspended(task) == \E i \in 1..Len(calls) : calls[i].task = task

\* the first load, awaited by on_startup, has failed: the registry is empty and
\* _loaded is False
InitLoad ==
    /\ active_users = {} /\ user_filters = EmptyDict /\ user_sent_projects = EmptyDict
    /\ sent_keys = <<>> /\ user_intervals = EmptyDict
    /\ loaded = FALSE /\ store \in LoadStores
    /\ sent_projects = SentProjectsCollection(FALSE)
    /\ limit = None /\ remaining = None /\ elapsed = None
    /\ pc = "wait" /\ pending = {} /\ calls = <<>> /\ is_running = TRUE
    /\ op = NoLoad /\ dlv = NoDelivery /\ last_call = NoCall /\ last_check = NoCheckUser
    /\ seen_sent = [u \in Users |-> {}] /\ cyc = NoCycle /\ chk = NoCheck

\* a task finds _loaded False, enters load_data_from_db and is suspended in
\* get_all_users
LoadCall ==
    \E task \in LoadTasks :
        /\ ~loaded /\ ~LoadSuspended(task)
        /\ calls' = Append(calls, [task |-> task])
        /\ op' = [op EXCEPT !.kind = "call"]
        /\ UNCHANGED <<active_users, user_filters, user_sent_projects, sent_keys,
                       user_intervals, store, loaded, sent_projects>>
        /\ LimiterUnchanged /\ SchedulerUnchanged /\ RegObserversUnchanged

\* get_all_users answers a suspended load: with the documents, and the load writes the
\* cache and sets _loaded, or with an exception, which the load logs
LoadReturn ==
    \E i \in 1..Len(calls), db_ok \in BOOLEAN :
        /\ "task" \in DOMAIN calls[i]
        /\ calls' = Without(calls, i)
        /\ IF db_ok
           THEN /\ RegistryBecomes(load_data_from_db(Registry, store))
                /\ loaded' = TRUE
                /\ op' = [op EXCEPT !.kind = "load", !.loads = @ + 1]
           ELSE /\ UNCHANGED <<active_users, user_filters, user_sent_projects, sent_keys,
                               user_intervals, loaded>>
                /\ op' = [op EXCEPT !.kind = "load_failed"]
        /\ UNCHANGED <<store, sent_projects>>
        /\ LimiterUnchanged /\ SchedulerUnchanged /\ RegObserversUnchanged

\* the loop, past its own load, marks a project as sent to an active user
LoadAddSent ==
    \E u \in Users, project_id \in {100, 101, 102}, db_ok \in BOOLEAN :
        /\ loaded /\ ~LoadSuspended("monitor")
        /\ u \in active_users
        /\ MarkSent(u, project_id, db_ok)
        /\ op' = [op EXCEPT !.kind = "add", !.added[u] = @ \cup {project_id}]
        /\ RegObserversUnchanged

NextLoad == LoadCall \/ LoadReturn \/ LoadAddSent

SpecLoad == InitLoad /\ [][NextLoad]_vars

\* C40 as stated: at most one load_data_from_db run writes the cache, and an id
\* add_sent_project added in memory after a load completed stays in the user's
\* delivered set.
C40_LoadedOnce ==
    /\ op.loads <= 1
    /\ \A u \in Users :
           op.added[u] # {} => /\ u \in DOMAIN user_sent_projects
                               /\ op.added[u] \subseteq user_sent_projects[u]

====
